---- MODULE Spec2Model ----
(***************************************************************************)
(* The career-guidance reasoning pipeline of career_agent: the Supervisor  *)
(* (route_event), the per-user caches of CareerGuidancePipeline and the    *)
(* stages of process_event, driven by callers on the API's event loop.     *)
(*                                                                         *)
(* Python values are records with a "kind" field; None is the record of    *)
(* kind "None".  An object built during a run carries the run that built   *)
(* it in its "by" field (object identity).                                 *)
(***************************************************************************)
EXTENDS Integers, Sequences, FiniteSets, TLC

\* ---------------------------------------------------------------- bounds

NUsers == 2
MaxRuns == 2

Users == 1..NUsers
Runs == 1..MaxRuns

\* ---------------------------------------------------------------- values

None == [kind |-> "None"]

\* Python truthiness of an Optional[object]: None is falsy, every pydantic
\* model instance and every coroutine object is truthy.
Truthy(x) == x.kind # "None"

\* a Python str as an Optional value
Str(s) == [kind |-> "str", value |-> s]

\* models.py EventType, plus a tag outside the enumeration (match default)
EventType == {"onboarding_completed", "skill_updated", "direction_changed", "check_in"}

EventTags == EventType \cup {"unrecognized"}

Event(t) == [kind |-> "Event", event_type |-> t]

ExecutionPlan(p, s, c, r) ==
    [run_profile |-> p, run_skill |-> s, run_career |-> c, run_reasoning |-> r]

UserProfileInput(u, st, ex, ints, gls) ==
    [kind |-> "UserProfileInput", user_id |-> u, stage |-> st,
     exposure_level |-> ex, interests |-> ints, goals |-> gls]

SkillEntry(s, l) == [skill |-> s, level |-> l]

SkillSnapshot(entries) == [kind |-> "SkillSnapshot", skills |-> entries]

\* ---------------------------------------------------------------- inputs

\* one submitted profile per user: user 1 has built small projects, the
\* others work professionally
ProfileInputs(u) ==
    { UserProfileInput(u, "third_year",
          IF u = 1 THEN "small_projects" ELSE "professional",
          <<"backend", "api">>, <<>>) }

SnapshotInputs ==
    { None,
      SkillSnapshot(<<>>),
      SkillSnapshot(<<SkillEntry("python", "comfortable"),
                      SkillEntry("statistics", "used_a_bit"),
                      SkillEntry("sql", "aware")>>) }

\* ---------------------------------------------------------------- supervisor

route_event_default_check_in(event) ==
    CASE event.event_type = "onboarding_completed" -> ExecutionPlan(TRUE, TRUE, TRUE, TRUE)
      [] event.event_type = "skill_updated" -> ExecutionPlan(FALSE, TRUE, FALSE, TRUE)
      [] event.event_type = "direction_changed" -> ExecutionPlan(FALSE, FALSE, TRUE, TRUE)
      [] OTHER -> ExecutionPlan(FALSE, FALSE, FALSE, TRUE)

route_event_career_on_skill(event) ==
    CASE event.event_type = "onboarding_completed" -> ExecutionPlan(TRUE, TRUE, TRUE, TRUE)
      [] event.event_type = "skill_updated" -> ExecutionPlan(FALSE, TRUE, TRUE, TRUE)
      [] event.event_type = "direction_changed" -> ExecutionPlan(FALSE, FALSE, TRUE, TRUE)
      [] event.event_type = "check_in" -> ExecutionPlan(FALSE, FALSE, FALSE, TRUE)
      [] OTHER -> ExecutionPlan(FALSE, FALSE, FALSE, FALSE)

route_event_default_profile(event) ==
    CASE event.event_type = "onboarding_completed" -> ExecutionPlan(TRUE, TRUE, TRUE, TRUE)
      [] event.event_type = "skill_updated" -> ExecutionPlan(FALSE, TRUE, FALSE, TRUE)
      [] event.event_type = "direction_changed" -> ExecutionPlan(FALSE, FALSE, TRUE, TRUE)
      [] event.event_type = "check_in" -> ExecutionPlan(FALSE, FALSE, FALSE, TRUE)
      [] OTHER -> ExecutionPlan(TRUE, FALSE, FALSE, FALSE)

route_event(event) ==
    CASE event.event_type = "onboarding_completed" -> ExecutionPlan(TRUE, TRUE, TRUE, TRUE)
      [] event.event_type = "skill_updated" -> ExecutionPlan(FALSE, TRUE, FALSE, TRUE)
      [] event.event_type = "direction_changed" -> ExecutionPlan(FALSE, FALSE, TRUE, TRUE)
      [] event.event_type = "check_in" -> ExecutionPlan(FALSE, FALSE, FALSE, TRUE)
      [] OTHER -> ExecutionPlan(FALSE, FALSE, FALSE, FALSE)

plan_execution(event) == route_event(event)

should_abort_never(previous_agent_failed) == FALSE

should_abort(previous_agent_failed) == previous_agent_failed

\* ---------------------------------------------------------------- profile agent

determine_level(exposure, stage) ==
    IF exposure = "professional" THEN "advanced"
    ELSE IF exposure = "serious_projects" THEN "intermediate"
    ELSE IF exposure = "small_projects"
         THEN IF stage \in {"third_year", "final_year", "graduate"}
              THEN "intermediate" ELSE "beginner"
    ELSE "beginner"

get_next_level(current) ==
    IF current = "beginner" THEN "intermediate"
    ELSE IF current = "intermediate" THEN "advanced"
    ELSE "None"

Min(a, b) == IF a <= b THEN a ELSE b

estimate_progress(exposure, stage) ==
    LET base == CASE exposure = "coursework" -> 20
                  [] exposure = "small_projects" -> 40
                  [] exposure = "serious_projects" -> 65
                  [] exposure = "professional" -> 85
                  [] OTHER -> 0
    IN IF stage \in {"third_year", "final_year"} THEN Min(base + 15, 95) ELSE base

\* ProfileAgent._analyze_rule_based; preferences.goals falls back to the
\* two stock goals when the profile has none.
ProfileAgent_analyze(user_profile, r) ==
    LET level == determine_level(user_profile.exposure_level, user_profile.stage)
    IN [kind |-> "ProfileAnalysis", by |-> r,
        user_id |-> user_profile.user_id,
        level |-> level,
        nextLevel |-> get_next_level(level),
        progressToNextLevel |->
            estimate_progress(user_profile.exposure_level, user_profile.stage),
        goals |-> IF user_profile.goals # <<>> THEN user_profile.goals
                  ELSE <<"Build skills", "Get opportunities">>]

\* ---------------------------------------------------------------- skill agent

SkillsAt(snapshot, lvl) ==
    LET hit(e) == e.level = lvl
        sel == SelectSeq(snapshot.skills, hit)
    IN [i \in 1..Len(sel) |-> sel[i].skill]

categorize_skills(snapshot) ==
    [completed |-> SkillsAt(snapshot, "comfortable"),
     in_progress |-> SkillsAt(snapshot, "used_a_bit"),
     planned |-> SkillsAt(snapshot, "aware")]

\* str.lower(), character by character
LowerChar(c) ==
    CASE c = "A" -> "a" [] c = "B" -> "b" [] c = "C" -> "c" [] c = "D" -> "d"
      [] c = "E" -> "e" [] c = "F" -> "f" [] c = "G" -> "g" [] c = "H" -> "h"
      [] c = "I" -> "i" [] c = "J" -> "j" [] c = "K" -> "k" [] c = "L" -> "l"
      [] c = "M" -> "m" [] c = "N" -> "n" [] c = "O" -> "o" [] c = "P" -> "p"
      [] c = "Q" -> "q" [] c = "R" -> "r" [] c = "S" -> "s" [] c = "T" -> "t"
      [] c = "U" -> "u" [] c = "V" -> "v" [] c = "W" -> "w" [] c = "X" -> "x"
      [] c = "Y" -> "y" [] c = "Z" -> "z" [] OTHER -> c

RECURSIVE Lower(_)
Lower(s) ==
    IF Len(s) = 0 THEN ""
    ELSE LowerChar(SubSeq(s, 1, 1)) \o Lower(SubSeq(s, 2, Len(s)))

\* Python's "needle in hay" on strings
IsSubstr(needle, hay) ==
    \E i \in 0..(Len(hay) - Len(needle)) : SubSeq(hay, i + 1, i + Len(needle)) = needle

\* get_emerging_skills: the names of the hints; a direction containing ml, ai
\* or data gets the two ML hints, every other direction (and None) the generic one.
get_emerging_skills(direction) ==
    IF Truthy(direction)
       /\ (\/ IsSubstr("ml", Lower(direction.value))
           \/ IsSubstr("ai", Lower(direction.value))
           \/ IsSubstr("data", Lower(direction.value)))
    THEN <<"Prompt Engineering", "MLOps">>
    ELSE <<"AI-Assisted Development">>

SkillAgent_analyze(snapshot, target_direction, r) ==
    LET cat == categorize_skills(snapshot)
    IN [kind |-> "SkillAnalysis", by |-> r,
        skillsCompleted |-> cat.completed,
        skillsInProgress |-> cat.in_progress,
        skillsPlanned |-> cat.planned,
        target_direction |-> target_direction,
        emergingSkills |-> get_emerging_skills(target_direction)]

\* the literal SkillAnalysis(skillsCompleted=[], ..., emergingSkills=[])
EmptySkillAnalysis(r) ==
    [kind |-> "SkillAnalysis", by |-> r,
     skillsCompleted |-> <<>>, skillsInProgress |-> <<>>, skillsPlanned |-> <<>>,
     target_direction |-> None, emergingSkills |-> <<>>]

\* ---------------------------------------------------------------- career agent

\* CareerRecommendationAgent.recommend is declared "async def" and
\* process_event calls it without await: the call runs none of its body and
\* evaluates to a coroutine object holding the arguments.
CareerAgent_recommend(profile, skill_analysis, user_interests, user_goals, r) ==
    [kind |-> "coroutine", by |-> r, profile |-> profile,
     skill_analysis |-> skill_analysis,
     user_interests |-> user_interests, user_goals |-> user_goals]

\* attribute access obj.primaryDirection: defined on a CareerAnalysis only
HasPrimaryDirection(obj) == obj.kind = "CareerAnalysis"

AttributeError(stage) ==
    [kind |-> "AttributeError", stage |-> stage,
     message |-> "'coroutine' object has no attribute 'primaryDirection'"]

ValueError(stage) ==
    [kind |-> "ValueError", stage |-> stage,
     message |-> "No reasoning step in execution plan"]

\* ---------------------------------------------------------------- synthesizer

\* ReasoningAgent.synthesize reads career.primaryDirection first of all
\* career fields (build_career_direction); the output keeps its three inputs.
synthesize_ok(career) == HasPrimaryDirection(career)

HorizonOutput(user_id, profile, skill_analysis, career) ==
    [kind |-> "HorizonOutput", userId |-> user_id, profile |-> profile,
     skill_analysis |-> skill_analysis, career |-> career]

\* ---------------------------------------------------------------- state

VARIABLES
    profile_cache,   \* CareerGuidancePipeline._profile_cache: user -> ProfileAnalysis
    skill_cache,     \* ._skill_cache
    career_cache,    \* ._career_cache
    pc,              \* where each process_event call stands
    event,           \* arguments of the call
    user_profile,
    skill_snapshot,
    plan,            \* locals of the call
    profile_result,
    skill_result,
    career_result,
    exc,             \* the exception in flight
    outcome,         \* what the call returned or raised
    calls,           \* the agent methods the call has invoked, in order
    startCache,      \* the user's three slots when the call was made
    endCache,        \* the user's three slots when the call ended
    synthArgs,       \* the arguments handed to synthesize
    args,            \* a function of the agents studied on its own: its arguments
    ret              \* and what it returned

caches == <<profile_cache, skill_cache, career_cache>>

inputs == <<event, user_profile, skill_snapshot>>

locals == <<plan, profile_result, skill_result, career_result>>

\* the state of the pipeline and its callers
pipeline == <<profile_cache, skill_cache, career_cache, pc, event, user_profile,
              skill_snapshot, plan, profile_result, skill_result, career_result,
              exc, outcome, calls, startCache, endCache, synthArgs>>

\* a single agent function called outside the pipeline
harness == <<args, ret>>

vars == <<profile_cache, skill_cache, career_cache, pc, event, user_profile,
          skill_snapshot, plan, profile_result, skill_result, career_result,
          exc, outcome, calls, startCache, endCache, synthArgs, args, ret>>

\* agent.py line 63: every cache access of a call uses this key
user_id_fixed(r) == 1

user_id(r) == user_profile[r].user_id

Slots(u) ==
    [profile |-> profile_cache[u], skill |-> skill_cache[u], career |-> career_cache[u]]

InProgress(r) == pc[r] \notin {"idle", "done"}

\* api.py: the handlers are "async def" and call process_event with no await
\* in between, so the event loop runs one call to its end before the next.
LoopIdle_threads == TRUE

LoopIdle == \A r \in Runs : ~InProgress(r)

\* line 80
RunsSkillStage(r) == plan[r].run_skill /\ Truthy(skill_snapshot[r])

\* line 88
RunsCareerStage_any_plan(r) == Truthy(profile_result[r])

RunsCareerStage_without_profile(r) == plan[r].run_career

RunsCareerStage(r) == plan[r].run_career /\ Truthy(profile_result[r])

\* line 115
NeedsProfile_never(r) == FALSE

NeedsProfile(r) == ~Truthy(profile_result[r])

PipelineInit ==
    /\ profile_cache = [u \in Users |-> None]
    /\ skill_cache = [u \in Users |-> None]
    /\ career_cache = [u \in Users |-> None]
    /\ pc = [r \in Runs |-> "idle"]
    /\ event = [r \in Runs |-> None]
    /\ user_profile = [r \in Runs |-> None]
    /\ skill_snapshot = [r \in Runs |-> None]
    /\ plan = [r \in Runs |-> None]
    /\ profile_result = [r \in Runs |-> None]
    /\ skill_result = [r \in Runs |-> None]
    /\ career_result = [r \in Runs |-> None]
    /\ exc = [r \in Runs |-> None]
    /\ outcome = [r \in Runs |-> None]
    /\ calls = [r \in Runs |-> <<>>]
    /\ startCache = [r \in Runs |-> None]
    /\ endCache = [r \in Runs |-> None]
    /\ synthArgs = [r \in Runs |-> None]

Init ==
    /\ PipelineInit
    /\ args = None
    /\ ret = None

\* ---------------------------------------------------------------- process_event

\* a caller invokes pipeline.process_event(event, user_profile, skill_snapshot)
Call(r, t, prof, snap) ==
    /\ pc[r] = "idle"
    /\ \A q \in Runs : q < r => pc[q] # "idle"
    /\ LoopIdle
    /\ event' = [event EXCEPT ![r] = Event(t)]
    /\ user_profile' = [user_profile EXCEPT ![r] = prof]
    /\ skill_snapshot' = [skill_snapshot EXCEPT ![r] = snap]
    /\ startCache' = [startCache EXCEPT ![r] = Slots(prof.user_id)]
    /\ pc' = [pc EXCEPT ![r] = "plan"]
    /\ UNCHANGED <<caches, locals, exc, outcome, calls, endCache, synthArgs>>
    /\ UNCHANGED harness

\* line 66
Plan(r) ==
    /\ pc[r] = "plan"
    /\ plan' = [plan EXCEPT ![r] = plan_execution(event[r])]
    /\ pc' = [pc EXCEPT ![r] = "read"]
    /\ UNCHANGED <<caches, inputs, profile_result, skill_result, career_result,
                   exc, outcome, calls, startCache, endCache, synthArgs>>
    /\ UNCHANGED harness

\* lines 69-71: dict.get gives None for a missing key
ReadCache(r) ==
    /\ pc[r] = "read"
    /\ profile_result' = [profile_result EXCEPT ![r] = profile_cache[user_id(r)]]
    /\ skill_result' = [skill_result EXCEPT ![r] = skill_cache[user_id(r)]]
    /\ career_result' = [career_result EXCEPT ![r] = career_cache[user_id(r)]]
    /\ pc' = [pc EXCEPT ![r] = "profile"]
    /\ UNCHANGED <<caches, inputs, plan, exc, outcome, calls, startCache, endCache, synthArgs>>
    /\ UNCHANGED harness

\* lines 75-77
ProfileStage(r) ==
    /\ pc[r] = "profile"
    /\ IF plan[r].run_profile
       THEN LET res == ProfileAgent_analyze(user_profile[r], r)
            IN /\ profile_result' = [profile_result EXCEPT ![r] = res]
               /\ profile_cache' = [profile_cache EXCEPT ![user_id(r)] = res]
               /\ calls' = [calls EXCEPT ![r] = Append(@, "profile")]
       ELSE UNCHANGED <<profile_result, profile_cache, calls>>
    /\ pc' = [pc EXCEPT ![r] = "skill"]
    /\ UNCHANGED <<skill_cache, career_cache, inputs, plan, skill_result,
                   career_result, exc, outcome, startCache, endCache, synthArgs>>
    /\ UNCHANGED harness

\* lines 80-85
SkillStage(r) ==
    /\ pc[r] = "skill"
    /\ IF RunsSkillStage(r)
       THEN IF Truthy(career_result[r]) /\ ~HasPrimaryDirection(career_result[r])
            THEN /\ exc' = [exc EXCEPT ![r] = AttributeError("skill")]
                 /\ pc' = [pc EXCEPT ![r] = "except"]
                 /\ UNCHANGED <<skill_result, skill_cache, calls>>
            ELSE LET direction == IF Truthy(career_result[r])
                                  THEN Str(career_result[r].primaryDirection.role)
                                  ELSE None
                     res == SkillAgent_analyze(skill_snapshot[r], direction, r)
                 IN /\ skill_result' = [skill_result EXCEPT ![r] = res]
                    /\ skill_cache' = [skill_cache EXCEPT ![user_id(r)] = res]
                    /\ calls' = [calls EXCEPT ![r] = Append(@, "skill")]
                    /\ pc' = [pc EXCEPT ![r] = "career"]
                    /\ exc' = exc
       ELSE /\ pc' = [pc EXCEPT ![r] = "career"]
            /\ UNCHANGED <<skill_result, skill_cache, calls, exc>>
    /\ UNCHANGED <<profile_cache, career_cache, inputs, plan, profile_result,
                   career_result, outcome, startCache, endCache, synthArgs>>
    /\ UNCHANGED harness

\* lines 88-110
CareerStage(r) ==
    /\ pc[r] = "career"
    /\ IF RunsCareerStage(r)
       THEN LET computed == ~Truthy(skill_result[r]) /\ Truthy(skill_snapshot[r])
                sk == IF computed
                      THEN SkillAgent_analyze(skill_snapshot[r], None, r)
                      ELSE IF ~Truthy(skill_result[r])
                           THEN EmptySkillAnalysis(r)
                           ELSE skill_result[r]
                res == CareerAgent_recommend(profile_result[r], sk,
                           user_profile[r].interests, user_profile[r].goals, r)
            IN /\ skill_result' = [skill_result EXCEPT ![r] = sk]
               /\ skill_cache' = IF computed
                                 THEN [skill_cache EXCEPT ![user_id(r)] = sk]
                                 ELSE skill_cache
               /\ career_result' = [career_result EXCEPT ![r] = res]
               /\ career_cache' = [career_cache EXCEPT ![user_id(r)] = res]
               /\ calls' = [calls EXCEPT ![r] =
                               (IF computed THEN Append(@, "skill") ELSE @)
                                   \o <<"career">>]
       ELSE UNCHANGED <<skill_result, skill_cache, career_result, career_cache, calls>>
    /\ pc' = [pc EXCEPT ![r] = "reasoning"]
    /\ UNCHANGED <<profile_cache, inputs, plan, profile_result, exc, outcome,
                   startCache, endCache, synthArgs>>
    /\ UNCHANGED harness

\* lines 113-140, and line 150 when the plan has no reasoning step
ReasoningStage(r) ==
    /\ pc[r] = "reasoning"
    /\ IF plan[r].run_reasoning
       THEN LET needP == NeedsProfile(r)
                needS == ~Truthy(skill_result[r])
                needC == ~Truthy(career_result[r])
                pr == IF needP THEN ProfileAgent_analyze(user_profile[r], r)
                      ELSE profile_result[r]
                sk == IF needS
                      THEN IF Truthy(skill_snapshot[r])
                           THEN SkillAgent_analyze(skill_snapshot[r], None, r)
                           ELSE EmptySkillAnalysis(r)
                      ELSE skill_result[r]
                cr == IF needC
                      THEN CareerAgent_recommend(pr, sk, user_profile[r].interests,
                               user_profile[r].goals, r)
                      ELSE career_result[r]
            IN /\ profile_result' = [profile_result EXCEPT ![r] = pr]
               /\ skill_result' = [skill_result EXCEPT ![r] = sk]
               /\ career_result' = [career_result EXCEPT ![r] = cr]
               /\ profile_cache' = IF needP
                                   THEN [profile_cache EXCEPT ![user_id(r)] = pr]
                                   ELSE profile_cache
               /\ skill_cache' = IF needS
                                 THEN [skill_cache EXCEPT ![user_id(r)] = sk]
                                 ELSE skill_cache
               /\ career_cache' = IF needC
                                  THEN [career_cache EXCEPT ![user_id(r)] = cr]
                                  ELSE career_cache
               /\ calls' = [calls EXCEPT ![r] =
                               @ \o (IF needP THEN <<"profile">> ELSE <<>>)
                                 \o (IF needS /\ Truthy(skill_snapshot[r])
                                     THEN <<"skill">> ELSE <<>>)
                                 \o (IF needC THEN <<"career">> ELSE <<>>)]
               /\ synthArgs' = [synthArgs EXCEPT ![r] =
                                   [kind |-> "args", profile |-> pr,
                                    skill_analysis |-> sk, career |-> cr]]
               /\ pc' = [pc EXCEPT ![r] = "synthesize"]
               /\ exc' = exc
       ELSE /\ exc' = [exc EXCEPT ![r] = ValueError("reasoning")]
            /\ pc' = [pc EXCEPT ![r] = "except"]
            /\ UNCHANGED <<caches, profile_result, skill_result, career_result,
                           calls, synthArgs>>
    /\ UNCHANGED <<inputs, plan, outcome, startCache, endCache>>
    /\ UNCHANGED harness

\* lines 142-147: the call of reasoning_agent.synthesize and its return
Synthesize(r) ==
    /\ pc[r] = "synthesize"
    /\ calls' = [calls EXCEPT ![r] = Append(@, "synthesize")]
    /\ IF synthesize_ok(synthArgs[r].career)
       THEN /\ outcome' = [outcome EXCEPT ![r] =
                              HorizonOutput(user_id(r), synthArgs[r].profile,
                                  synthArgs[r].skill_analysis, synthArgs[r].career)]
            /\ endCache' = [endCache EXCEPT ![r] = Slots(user_id(r))]
            /\ pc' = [pc EXCEPT ![r] = "done"]
            /\ exc' = exc
       ELSE /\ exc' = [exc EXCEPT ![r] = AttributeError("synthesize")]
            /\ pc' = [pc EXCEPT ![r] = "except"]
            /\ UNCHANGED <<outcome, endCache>>
    /\ UNCHANGED <<caches, inputs, locals, startCache, synthArgs>>
    /\ UNCHANGED harness

\* lines 152-155
Except(r) ==
    /\ pc[r] = "except"
    /\ outcome' = [outcome EXCEPT ![r] =
                      IF should_abort(TRUE)
                      THEN [kind |-> "RuntimeError", message |-> "Pipeline aborted",
                            cause |-> exc[r]]
                      ELSE exc[r]]
    /\ endCache' = [endCache EXCEPT ![r] = Slots(user_id(r))]
    /\ pc' = [pc EXCEPT ![r] = "done"]
    /\ UNCHANGED <<caches, inputs, locals, exc, calls, startCache, synthArgs>>
    /\ UNCHANGED harness

Next ==
    \E r \in Runs :
        \/ \E t \in EventTags, u \in Users, snap \in SnapshotInputs :
               \E prof \in ProfileInputs(u) : Call(r, t, prof, snap)
        \/ Plan(r)
        \/ ReadCache(r)
        \/ ProfileStage(r)
        \/ SkillStage(r)
        \/ CareerStage(r)
        \/ ReasoningStage(r)
        \/ Synthesize(r)
        \/ Except(r)

Spec == Init /\ [][Next]_vars

\* ---------------------------------------------------------------- properties

Done(r) == pc[r] = "done"

\* no later call has been made
Latest(r) == \A q \in Runs : q > r => pc[q] = "idle"

Populated(slots) ==
    Truthy(slots.profile) /\ Truthy(slots.skill) /\ Truthy(slots.career)

NoSlots == [profile |-> None, skill |-> None, career |-> None]

Member(x, seq) == \E i \in 1..Len(seq) : seq[i] = x

Aborted(out, cause) ==
    /\ out.kind = "RuntimeError"
    /\ out.message = "Pipeline aborted"
    /\ out.cause = cause

\* C1: the step that plans a call sets the plan to the routing table's row for
\* the event tag (onboarding_completed TTTT, skill_updated FTFT,
\* direction_changed FFTT, check_in FFFT, any other tag FFFF), raises nothing
\* and leaves every cache slot of every user as it was.
C1_RouteEventTable ==
    [][\A r \in Runs :
          (pc[r] = "plan" /\ pc'[r] # "plan") =>
              LET t == event[r].event_type
              IN /\ pc'[r] = "read"
                 /\ exc'[r] = None
                 /\ caches' = caches
                 /\ plan'[r].run_profile = (t = "onboarding_completed")
                 /\ plan'[r].run_skill = (t \in {"onboarding_completed", "skill_updated"})
                 /\ plan'[r].run_career = (t \in {"onboarding_completed", "direction_changed"})
                 /\ plan'[r].run_reasoning = (t \in EventType)]_vars

C1_Witness ==
    \E r \in Runs :
        /\ pc[r] = "read"
        /\ event[r].event_type = "unrecognized"
        /\ plan[r] = ExecutionPlan(FALSE, FALSE, FALSE, FALSE)
        /\ Populated(Slots(user_id(r)))

\* C2: every call with one of the four recognized events ends by returning a
\* HorizonOutput synthesized from a ProfileAnalysis, a SkillAnalysis and a
\* CareerAnalysis, whatever the caches held and whether or not a snapshot
\* was passed.
C2_RecognizedEventReturnsHorizon ==
    \A r \in Runs :
        (Done(r) /\ event[r].event_type \in EventType) =>
            /\ outcome[r].kind = "HorizonOutput"
            /\ outcome[r].profile.kind = "ProfileAnalysis"
            /\ outcome[r].skill_analysis.kind = "SkillAnalysis"
            /\ outcome[r].career.kind = "CareerAnalysis"

C4_OnDemandResultsCached ==
    \A r \in Runs :
        (Truthy(synthArgs[r]) /\ Latest(r)) =>
            /\ Populated(Slots(user_id(r)))
            /\ profile_cache[user_id(r)] = synthArgs[r].profile
            /\ skill_cache[user_id(r)] = synthArgs[r].skill_analysis
            /\ career_cache[user_id(r)] = synthArgs[r].career

\* C5: for a call made when the user's three slots are populated, a
\* skill_updated call invokes no agent but skill and synthesize and leaves
\* the profile and career slots as they were, a direction_changed call
\* invokes no agent but career and synthesize and leaves the profile and
\* skill slots as they were, and a check_in call invokes synthesize only,
\* on the three cached values, and leaves all three slots as they were.
C5_OnlyPlannedStagesRun ==
    \A r \in Runs :
        (pc[r] # "idle" /\ Latest(r) /\ Populated(startCache[r])) =>
            LET t == event[r].event_type
                u == user_id(r)
                start == startCache[r]
                only(S) == \A i \in 1..Len(calls[r]) : calls[r][i] \in S
            IN /\ t = "skill_updated" =>
                     /\ profile_cache[u] = start.profile
                     /\ career_cache[u] = start.career
                     /\ only({"skill", "synthesize"})
               /\ t = "direction_changed" =>
                     /\ profile_cache[u] = start.profile
                     /\ skill_cache[u] = start.skill
                     /\ only({"career", "synthesize"})
               /\ t = "check_in" =>
                     /\ Slots(u) = start
                     /\ only({"synthesize"})
                     /\ Truthy(synthArgs[r]) =>
                            /\ synthArgs[r].profile = start.profile
                            /\ synthArgs[r].skill_analysis = start.skill
                            /\ synthArgs[r].career = start.career

C5_Witness ==
    \E r \in Runs :
        /\ Done(r)
        /\ Populated(startCache[r])
        /\ event[r].event_type = "check_in"
        /\ calls[r] = <<"synthesize">>
        /\ synthArgs[r].career = startCache[r].career
        /\ Slots(user_id(r)) = startCache[r]

C7_StageFailureAborts ==
    /\ \A b \in BOOLEAN : should_abort(b) = b
    /\ \A r \in Runs :
          Truthy(exc[r]) =>
              /\ pc[r] \in {"except", "done"}
              /\ exc[r].stage = "skill" =>
                     /\ ~Member("skill", calls[r])
                     /\ ~Member("career", calls[r])
                     /\ skill_result[r] = startCache[r].skill
                     /\ career_result[r] = startCache[r].career
              /\ exc[r].stage \in {"skill", "reasoning"} =>
                     /\ ~Member("synthesize", calls[r])
                     /\ synthArgs[r] = None
              /\ Done(r) =>
                     /\ Aborted(outcome[r], exc[r])
                     /\ outcome[r].kind # "HorizonOutput"

C7_Witness ==
    \E r \in Runs :
        /\ Done(r)
        /\ exc[r] = AttributeError("skill")
        /\ calls[r] = <<"profile">>
        /\ Aborted(outcome[r], AttributeError("skill"))

\* C8: no two calls for the same user are in progress at once, and while a
\* call is in progress each slot of its user holds either what it held when
\* the call was made or an object the call itself built.
C8_OneRunPerUser ==
    /\ \A r1, r2 \in Runs :
          (r1 # r2 /\ InProgress(r1) /\ InProgress(r2)) =>
              user_profile[r1].user_id # user_profile[r2].user_id
    /\ \A r \in Runs :
          InProgress(r) =>
              LET u == user_profile[r].user_id
                  own(now, before) == now = before \/ (Truthy(now) /\ now.by = r)
              IN /\ own(profile_cache[u], startCache[r].profile)
                 /\ own(skill_cache[u], startCache[r].skill)
                 /\ own(career_cache[u], startCache[r].career)

C8_Witness ==
    \E r1, r2 \in Runs :
        /\ r1 < r2
        /\ Done(r1)
        /\ pc[r2] = "reasoning"
        /\ user_profile[r1].user_id = user_profile[r2].user_id
        /\ Truthy(career_cache[user_profile[r2].user_id])
        /\ career_cache[user_profile[r2].user_id].by = r2

\* the calls for the user of call r that were made before it
Earlier(r) ==
    {q \in Runs : q < r /\ pc[q] # "idle"
                  /\ user_profile[q].user_id = user_profile[r].user_id}

Last(S) == CHOOSE q \in S : \A p \in S : p <= q

C10_ProfileBeforeSynthesize ==
    \A r \in Runs :
        /\ Truthy(synthArgs[r]) =>
              /\ synthArgs[r].profile.kind = "ProfileAnalysis"
              /\ synthArgs[r].profile.user_id = user_profile[r].user_id
              /\ profile_cache[user_profile[r].user_id].kind = "ProfileAnalysis"
              /\ profile_cache[user_profile[r].user_id].user_id = user_profile[r].user_id
        /\ Member("synthesize", calls[r]) => Truthy(synthArgs[r])
        /\ outcome[r].kind = "HorizonOutput" =>
              /\ Truthy(synthArgs[r])
              /\ outcome[r].profile = synthArgs[r].profile

C10_Witness ==
    \E r \in Runs :
        /\ pc[r] = "done"
        /\ event[r].event_type = "check_in"
        /\ startCache[r] = NoSlots
        /\ Member("synthesize", calls[r])
        /\ profile_cache[user_profile[r].user_id].by = r

StageRank(p) ==
    CASE p = "idle" -> 0 [] p = "plan" -> 1 [] p = "read" -> 2
      [] p = "profile" -> 3 [] p = "skill" -> 4 [] p = "career" -> 5
      [] p = "reasoning" -> 6 [] p = "synthesize" -> 7 [] p = "except" -> 8
      [] OTHER -> 9

\* C11: a call passes its stages in the order profile, skill, career,
\* reasoning; every recommend call of the career stage was given a
\* SkillAnalysis; and synthesize is only ever handed a ProfileAnalysis, a
\* SkillAnalysis and a CareerAnalysis.
C11_StagesOrderedInputsAvailable ==
    /\ [](\A r \in Runs :
            /\ (Truthy(career_result[r]) /\ career_result[r].kind = "coroutine") =>
                  career_result[r].skill_analysis.kind = "SkillAnalysis"
            /\ Truthy(synthArgs[r]) =>
                  /\ synthArgs[r].profile.kind = "ProfileAnalysis"
                  /\ synthArgs[r].skill_analysis.kind = "SkillAnalysis"
                  /\ synthArgs[r].career.kind = "CareerAnalysis")
    /\ [][\A r \in Runs : StageRank(pc'[r]) >= StageRank(pc[r])]_vars

\* ---------------------------------------------------------------- career catalog

\* CAREER_ROLES in iteration order
CAREER_ROLES ==
    <<
      [key |-> "ml_engineer",
       title |-> "Machine Learning Engineer",
       required_skills |-> <<"python", "machine_learning", "statistics", "linear_algebra">>,
       helpful_skills |-> <<"deep_learning", "data_structures", "algorithms">>,
       keywords |-> <<"ml",
                       "machine learning",
                       "ai",
                       "artificial intelligence",
                       "deep learning">>,
       market |-> [demandTrend |-> "increasing", salaryRange |-> "12-30 LPA",
                   topCompanies |-> <<"Google", "Microsoft", "Amazon", "Meta", "Startups">>],
       time_to_ready |-> [beginner |-> "18-24 months", intermediate |-> "6-12 months",
                          advanced |-> "Ready now"]],
      [key |-> "data_scientist",
       title |-> "Data Scientist",
       required_skills |-> <<"python", "statistics", "sql", "data_analysis">>,
       helpful_skills |-> <<"machine_learning", "data_structures">>,
       keywords |-> <<"data",
                       "analytics",
                       "statistics",
                       "insights">>,
       market |-> [demandTrend |-> "stable", salaryRange |-> "10-25 LPA",
                   topCompanies |-> <<"Amazon", "Flipkart", "Swiggy", "Analytics firms">>],
       time_to_ready |-> [beginner |-> "12-18 months", intermediate |-> "6-9 months",
                          advanced |-> "Ready now"]],
      [key |-> "backend_developer",
       title |-> "Backend Developer",
       required_skills |-> <<"programming_basics", "databases", "backend_frameworks">>,
       helpful_skills |-> <<"system_design", "docker", "cloud_services">>,
       keywords |-> <<"backend",
                       "api",
                       "server",
                       "microservices">>,
       market |-> [demandTrend |-> "stable", salaryRange |-> "8-20 LPA",
                   topCompanies |-> <<"Product companies", "Startups", "Service companies">>],
       time_to_ready |-> [beginner |-> "8-12 months", intermediate |-> "3-6 months",
                          advanced |-> "Ready now"]],
      [key |-> "frontend_developer",
       title |-> "Frontend Developer",
       required_skills |-> <<"html_css", "javascript", "react">>,
       helpful_skills |-> <<"typescript", "frontend_frameworks">>,
       keywords |-> <<"frontend",
                       "react",
                       "ui",
                       "ux",
                       "web">>,
       market |-> [demandTrend |-> "stable", salaryRange |-> "6-18 LPA",
                   topCompanies |-> <<"Product companies", "Startups", "Agencies">>],
       time_to_ready |-> [beginner |-> "6-10 months", intermediate |-> "2-4 months",
                          advanced |-> "Ready now"]],
      [key |-> "fullstack_developer",
       title |-> "Full Stack Developer",
       required_skills |-> <<"html_css", "javascript", "backend_frameworks", "databases">>,
       helpful_skills |-> <<"react", "docker", "cloud_services">>,
       keywords |-> <<"fullstack",
                       "full stack",
                       "web development">>,
       market |-> [demandTrend |-> "increasing", salaryRange |-> "8-22 LPA",
                   topCompanies |-> <<"Startups", "Product companies">>],
       time_to_ready |-> [beginner |-> "12-18 months", intermediate |-> "6-9 months",
                          advanced |-> "Ready now"]],
      [key |-> "devops_engineer",
       title |-> "DevOps Engineer",
       required_skills |-> <<"linux", "docker", "cloud_services", "git">>,
       helpful_skills |-> <<"kubernetes", "networking", "devops">>,
       keywords |-> <<"devops",
                       "cloud",
                       "infrastructure",
                       "ci/cd",
                       "aws",
                       "gcp">>,
       market |-> [demandTrend |-> "increasing", salaryRange |-> "10-28 LPA",
                   topCompanies |-> <<"Cloud companies", "Large enterprises", "Startups">>],
       time_to_ready |-> [beginner |-> "12-15 months", intermediate |-> "6-9 months",
                          advanced |-> "Ready now"]],
      [key |-> "product_manager",
       title |-> "Product Manager",
       required_skills |-> <<"product_thinking", "user_research", "analytics">>,
       helpful_skills |-> <<"programming_basics", "sql", "data_analysis">>,
       keywords |-> <<"product",
                       "pm",
                       "product manager",
                       "roadmap",
                       "strategy",
                       "user experience">>,
       market |-> [demandTrend |-> "stable", salaryRange |-> "15-40 LPA",
                   topCompanies |-> <<"Google", "Amazon", "Flipkart", "Startups">>],
       time_to_ready |-> [beginner |-> "12-18 months", intermediate |-> "6-9 months",
                          advanced |-> "Ready now"]],
      [key |-> "technical_marketer",
       title |-> "Technical Marketer",
       required_skills |-> <<"marketing_fundamentals", "analytics", "content_creation">>,
       helpful_skills |-> <<"seo", "programming_basics", "data_analysis">>,
       keywords |-> <<"marketing",
                       "technical marketing",
                       "growth",
                       "seo",
                       "content",
                       "digital marketing">>,
       market |-> [demandTrend |-> "increasing", salaryRange |-> "8-25 LPA",
                   topCompanies |-> <<"Tech startups", "SaaS companies", "Agencies">>],
       time_to_ready |-> [beginner |-> "6-12 months", intermediate |-> "3-6 months",
                          advanced |-> "Ready now"]],
      [key |-> "growth_hacker",
       title |-> "Growth Hacker",
       required_skills |-> <<"analytics", "marketing_fundamentals", "experimentation">>,
       helpful_skills |-> <<"programming_basics", "sql", "data_analysis">>,
       keywords |-> <<"growth",
                       "growth hacking",
                       "acquisition",
                       "retention",
                       "viral",
                       "funnel">>,
       market |-> [demandTrend |-> "increasing", salaryRange |-> "10-30 LPA",
                   topCompanies |-> <<"Startups", "Scale-ups", "Consumer tech">>],
       time_to_ready |-> [beginner |-> "8-12 months", intermediate |-> "4-6 months",
                          advanced |-> "Ready now"]],
      [key |-> "technical_writer",
       title |-> "Technical Writer",
       required_skills |-> <<"technical_writing", "documentation", "content_creation">>,
       helpful_skills |-> <<"programming_basics", "git", "developer_experience">>,
       keywords |-> <<"technical writing",
                       "documentation",
                       "docs",
                       "writer",
                       "content">>,
       market |-> [demandTrend |-> "stable", salaryRange |-> "6-18 LPA",
                   topCompanies |-> <<"Developer tools", "Enterprise software", "Open source">>],
       time_to_ready |-> [beginner |-> "6-10 months", intermediate |-> "3-5 months",
                          advanced |-> "Ready now"]],
      [key |-> "ux_designer",
       title |-> "UX Designer",
       required_skills |-> <<"ux_design", "user_research", "prototyping">>,
       helpful_skills |-> <<"html_css", "figma", "analytics">>,
       keywords |-> <<"ux",
                       "user experience",
                       "design",
                       "ui",
                       "interface",
                       "figma",
                       "prototype">>,
       market |-> [demandTrend |-> "stable", salaryRange |-> "8-25 LPA",
                   topCompanies |-> <<"Product companies", "Design agencies", "Startups">>],
       time_to_ready |-> [beginner |-> "8-12 months", intermediate |-> "4-6 months",
                          advanced |-> "Ready now"]] >>
RoleKeys == {CAREER_ROLES[i].key : i \in 1..Len(CAREER_ROLES)}

\* CAREER_ROLES[role_key]
Role(role_key) ==
    CAREER_ROLES[CHOOSE i \in 1..Len(CAREER_ROLES) : CAREER_ROLES[i].key = role_key]

\* one pass of the scoring loops, in units of half a skill's share: a
\* completed skill adds its whole share, an in-progress one (elif) half of it
Credit_in_progress_full(skill, completed_skills, in_progress_skills) ==
    IF Member(skill, completed_skills) \/ Member(skill, in_progress_skills)
    THEN 2 ELSE 0

Credit(skill, completed_skills, in_progress_skills) ==
    IF Member(skill, completed_skills) THEN 2
    ELSE IF Member(skill, in_progress_skills) THEN 1
    ELSE 0

RECURSIVE SumCredit(_, _, _)
SumCredit(skills, completed_skills, in_progress_skills) ==
    IF skills = <<>> THEN 0
    ELSE Credit(Head(skills), completed_skills, in_progress_skills)
             + SumCredit(Tail(skills), completed_skills, in_progress_skills)

\* int(required_score + helpful_score): required_score is 35/len(required)
\* per unit of credit, helpful_score 15/len(helpful); the division is the
\* exact one (for every role of the catalog and every pair of lists the
\* float sum of the code truncates to the same integer).
WeightedScore(required, helpful, completed_skills, in_progress_skills) ==
    (35 * SumCredit(required, completed_skills, in_progress_skills) * Len(helpful)
        + 15 * SumCredit(helpful, completed_skills, in_progress_skills) * Len(required))
        \div (Len(required) * Len(helpful))

calculate_match_score(role_key, completed_skills, in_progress_skills) ==
    WeightedScore(Role(role_key).required_skills, Role(role_key).helpful_skills,
                  completed_skills, in_progress_skills)

\* ---------------------------------------------------------------- calculate_match_score on its own

SkillStates == {"absent", "in_progress", "completed", "both_lists"}

RoleSkills(role_key) == Role(role_key).required_skills \o Role(role_key).helpful_skills

\* the skills of a role that stand at one of the given states, in catalog order
ListOf(role_key, level, states) ==
    LET here(s) == level[s] \in states
    IN SelectSeq(RoleSkills(role_key), here)

CompletedList(a) == ListOf(a.role_key, a.level, {"completed", "both_lists"})

InProgressList(a) == ListOf(a.role_key, a.level, {"in_progress", "both_lists"})

ScoreOf(a) == calculate_match_score(a.role_key, CompletedList(a), InProgressList(a))

ScoreInit ==
    /\ PipelineInit
    /\ \E k \in RoleKeys :
          args = [kind |-> "score", role_key |-> k,
                  level |-> [s \in {RoleSkills(k)[i] : i \in 1..Len(RoleSkills(k))}
                                |-> "absent"]]
    /\ ret = ScoreOf(args)

\* the score is taken again after one skill moved up: absent to in-progress,
\* in-progress to completed (leaving the in-progress list or staying on it)
Rescore(s, to) ==
    /\ \/ args.level[s] = "absent" /\ to = "in_progress"
       \/ args.level[s] = "in_progress" /\ to \in {"completed", "both_lists"}
    /\ args' = [args EXCEPT !.level[s] = to]
    /\ ret' = ScoreOf(args')
    /\ UNCHANGED pipeline

ScoreNext == \E s \in DOMAIN args.level, to \in SkillStates : Rescore(s, to)

ScoreSpec == ScoreInit /\ [][ScoreNext]_vars

\* the spec's reading of the score: 70 split evenly over the required skills
\* and 30 over the helpful ones, counted in halves of a share
HalfShares(skills, level) ==
    2 * Cardinality({i \in 1..Len(skills) : level[skills[i]] \in {"completed", "both_lists"}})
        + Cardinality({i \in 1..Len(skills) : level[skills[i]] = "in_progress"})

\* C12: for every catalog role and every pair of lists the score is an integer
\* in 0..100 equal to the floor of 70 split evenly over the required skills
\* plus 30 split evenly over the helpful skills (full share if completed, half
\* if in progress, nothing if absent), and it never decreases when a skill
\* moves from absent to in-progress or from in-progress to completed.
C12_ScoreBoundedFloorMonotone ==
    /\ [](LET required == Role(args.role_key).required_skills
              helpful == Role(args.role_key).helpful_skills
              r2 == HalfShares(required, args.level)
              h2 == HalfShares(helpful, args.level)
              n == 2 * Len(required) * Len(helpful)
              sum == 70 * r2 * Len(helpful) + 30 * h2 * Len(required)
          IN /\ ret \in 0..100
             /\ ret * n <= sum
             /\ sum < (ret + 1) * n)
    /\ [][ret' >= ret]_vars

C12_Witness ==
    /\ args.role_key = "backend_developer"
    /\ args.level["programming_basics"] = "completed"
    /\ args.level["databases"] = "in_progress"
    /\ args.level["docker"] = "both_lists"
    /\ ret = 45

\* ---------------------------------------------------------------- rule-based recommend

\* " ".join(words)
RECURSIVE Join(_)
Join(words) ==
    IF words = <<>> THEN ""
    ELSE IF Len(words) = 1 THEN words[1]
    ELSE words[1] \o " " \o Join(Tail(words))

LowerAll(words) == [i \in 1..Len(words) |-> Lower(words[i])]

\* any(kw in text for kw in role["keywords"])
KeywordHit(role, text) ==
    \E i \in 1..Len(role.keywords) : IsSubstr(role.keywords[i], text)

\* the keys of the roles of a list
KeysOf(roles) == [i \in 1..Len(roles) |-> roles[i].key]

\* the roles with a keyword in the text, in catalog order
MatchingRoles(text) == SelectSeq(CAREER_ROLES, LAMBDA role : KeywordHit(role, text))

\* return matches if matches else [...]
MatchesOrDefault(matches) ==
    IF matches # <<>> THEN matches
    ELSE <<"backend_developer", "fullstack_developer">>

match_interests_to_roles(interests, goals) ==
    MatchesOrDefault(KeysOf(MatchingRoles(Join(LowerAll(interests \o goals)))))

\* the interests, goals and profile level of the calls: interests that match
\* one role, that match none, none at all (the profile's goals stand in), and
\* goals that match further roles
RecommendInputs ==
    { <<<<"backend", "api">>, <<>>, "beginner">>,
      <<<<"backend", "api">>, <<"growth">>, "advanced">>,
      <<<<"ML">>, <<>>, "intermediate">>,
      <<<<"Cooking">>, <<>>, "advanced">>,
      <<<<"Cooking">>, <<"growth">>, "beginner">>,
      <<<<>>, <<>>, "intermediate">> }

Level == {"beginner", "intermediate", "advanced"}

\* the ProfileAnalysis fields recommend reads; preferences.goals are the stock
\* goals of the rule-based profile
ProfileInput(level) ==
    [kind |-> "ProfileAnalysis", level |-> level, role |-> "Aspiring Developer",
     goals |-> <<"Build skills", "Get opportunities">>]

\* lines 353-357: the interests the ranking uses
EffectiveInterests(profile, user_interests) ==
    IF user_interests # <<>> THEN user_interests ELSE profile.goals

\* the argument pairs match_interests_to_roles is called with
MatchInputs ==
    { <<EffectiveInterests(ProfileInput(case[3]), case[1]), case[2]>> :
          case \in RecommendInputs }

\* match_interests_to_roles tabulated over those pairs (the matching is the
\* same at every call with the same interests and goals)
MatchTable ==
    [pair \in MatchInputs |-> match_interests_to_roles(pair[1], pair[2])]

\* line 360: the call of match_interests_to_roles
MatchedRoles(interests, goals) ==
    IF <<interests, goals>> \in MatchInputs
    THEN MatchTable[<<interests, goals>>]
    ELSE match_interests_to_roles(interests, goals)

\* list.sort(key=score, reverse=True) is stable: an entry is placed after
\* every entry already placed whose score is not lower
RECURSIVE InsertByScore_before_equal(_, _)
InsertByScore_before_equal(sorted, x) ==
    IF sorted = <<>> THEN <<x>>
    ELSE IF Head(sorted).score > x.score
         THEN <<Head(sorted)>> \o InsertByScore_before_equal(Tail(sorted), x)
         ELSE <<x>> \o sorted

RECURSIVE InsertByScore(_, _)
InsertByScore(sorted, x) ==
    IF sorted = <<>> THEN <<x>>
    ELSE IF Head(sorted).score >= x.score
         THEN <<Head(sorted)>> \o InsertByScore(Tail(sorted), x)
         ELSE <<x>> \o sorted

RECURSIVE SortByScore(_)
SortByScore(entries) ==
    IF entries = <<>> THEN <<>>
    ELSE InsertByScore(SortByScore(SubSeq(entries, 1, Len(entries) - 1)),
                       entries[Len(entries)])

BonusScore_uncapped(score) == score + 20

BonusScore(score) == Min(100, score + 20)

IncludeOther_always(score) == TRUE

IncludeOther(score) == score >= 30

\* lines 363-367: the candidates with their bonus
CandidateEntries(matched_roles, completed, in_progress) ==
    [i \in 1..Len(matched_roles) |->
        [role_key |-> matched_roles[i],
         score |-> BonusScore(calculate_match_score(matched_roles[i], completed, in_progress))]]

\* lines 370-374: the other roles that reach the threshold, in catalog order
OtherRoles(matched_roles, completed, in_progress) ==
    SelectSeq(CAREER_ROLES,
              LAMBDA role : /\ ~Member(role.key, matched_roles)
                            /\ IncludeOther(calculate_match_score(role.key, completed,
                                                                  in_progress)))

OtherEntries(others, completed, in_progress) ==
    [i \in 1..Len(others) |->
        [role_key |-> others[i].key,
         score |-> calculate_match_score(others[i].key, completed, in_progress)]]

\* lines 378-379
OrBackendDefault(scored_roles) ==
    IF scored_roles = <<>> THEN <<[role_key |-> "backend_developer", score |-> 40]>>
    ELSE scored_roles

\* lines 362-379: scored_roles after the sort
RankRoles(matched_roles, completed, in_progress) ==
    OrBackendDefault(SortByScore(
        CandidateEntries(matched_roles, completed, in_progress)
            \o OtherEntries(OtherRoles(matched_roles, completed, in_progress),
                            completed, in_progress)))

ScoredRoles(profile, skill_analysis, user_interests, user_goals) ==
    RankRoles(MatchedRoles(EffectiveInterests(profile, user_interests), user_goals),
              skill_analysis.skillsCompleted, skill_analysis.skillsInProgress)

CareerMatch(role, matchScore, reason, timeToReady) ==
    [role |-> role, matchScore |-> matchScore, reason |-> reason,
     timeToReady |-> timeToReady]

\* lines 386-391
PrimaryMatch(primary_role, score, interests, profile) ==
    CareerMatch(primary_role.title, score,
        IF interests # <<>>
        THEN <<"Based on your interest in">> \o SubSeq(interests, 1, Min(2, Len(interests)))
        ELSE <<"Based on your interest in", profile.role>>,
        IF profile.level \in DOMAIN primary_role.time_to_ready
        THEN primary_role.time_to_ready[profile.level]
        ELSE "12 months")

\* lines 394-401: for role_key, score in scored_roles[1:4]
AlternativeMatches(rest) ==
    [i \in 1..Len(rest) |->
        CareerMatch(Role(rest[i].role_key).title, rest[i].score,
                    <<"Matches your interest in related areas">>, "None")]

\* lines 381-407
CareerAnalysisOf(scored_roles, interests, profile) ==
    [kind |-> "CareerAnalysis",
     primaryDirection |->
         PrimaryMatch(Role(scored_roles[1].role_key), scored_roles[1].score,
                      interests, profile),
     alternativeDirections |->
         AlternativeMatches(SubSeq(scored_roles, 2, Min(4, Len(scored_roles)))),
     marketInsights |-> Role(scored_roles[1].role_key).market]

\* CareerRecommendationAgent._recommend_fallback
recommend_fallback(profile, skill_analysis, user_interests, user_goals) ==
    CareerAnalysisOf(ScoredRoles(profile, skill_analysis, user_interests, user_goals),
                     EffectiveInterests(profile, user_interests), profile)

\* ---------------------------------------------------------------- recommend on its own

\* the skills a snapshot may list
SnapshotSkills ==
    <<"programming_basics", "databases", "backend_frameworks", "python",
      "statistics", "docker", "system_design">>

\* the SkillAnalysis of a snapshot: its skills by level, in snapshot order
AnalysisOf(level) ==
    [kind |-> "SkillAnalysis",
     skillsCompleted |-> SelectSeq(SnapshotSkills, LAMBDA s : level[s] = "completed"),
     skillsInProgress |-> SelectSeq(SnapshotSkills, LAMBDA s : level[s] = "in_progress")]

RecommendOf(a) ==
    recommend_fallback(a.profile, AnalysisOf(a.level), a.user_interests, a.user_goals)

RecommendInit ==
    /\ PipelineInit
    /\ \E case \in RecommendInputs :
          args = [kind |-> "recommend", user_interests |-> case[1], user_goals |-> case[2],
                  profile |-> ProfileInput(case[3]),
                  level |-> [s \in {SnapshotSkills[i] : i \in 1..Len(SnapshotSkills)}
                                |-> "absent"]]
    /\ ret = RecommendOf(args)

\* recommend is called again after the snapshot moved one skill up
Recommend(s, to) ==
    /\ \/ args.level[s] = "absent" /\ to = "in_progress"
       \/ args.level[s] = "in_progress" /\ to = "completed"
    /\ args' = [args EXCEPT !.level[s] = to]
    /\ ret' = RecommendOf(args')
    /\ UNCHANGED pipeline

RecommendNext ==
    \E s \in DOMAIN args.level, to \in {"in_progress", "completed"} : Recommend(s, to)

RecommendSpec == RecommendInit /\ [][RecommendNext]_vars

\* the ranking recommend works from in the state at hand
Ranking ==
    ScoredRoles(args.profile, AnalysisOf(args.level), args.user_interests, args.user_goals)

Candidates ==
    MatchedRoles(EffectiveInterests(args.profile, args.user_interests), args.user_goals)

BaseScore(k) ==
    calculate_match_score(k, AnalysisOf(args.level).skillsCompleted,
                          AnalysisOf(args.level).skillsInProgress)

\* position of a role key in a ranking, 0 if it is not ranked
PlaceIn(ranking, k) ==
    IF \E j \in 1..Len(ranking) : ranking[j].role_key = k
    THEN CHOOSE j \in 1..Len(ranking) : ranking[j].role_key = k
    ELSE 0

\* every candidate is ranked with min(100, base + 20), any other role only
\* with a base score of 30 or more, which is then its score
BonusAndThreshold(ranking, candidates, base) ==
    \A k \in RoleKeys :
        IF Member(k, candidates)
        THEN /\ PlaceIn(ranking, k) > 0
             /\ ranking[PlaceIn(ranking, k)].score =
                    (IF base[k] + 20 > 100 THEN 100 ELSE base[k] + 20)
        ELSE PlaceIn(ranking, k) > 0 =>
             /\ base[k] >= 30
             /\ ranking[PlaceIn(ranking, k)].score = base[k]

\* C13: in the rule-based recommend every candidate role (matched by a
\* keyword of the interests and goals, or backend_developer and
\* fullstack_developer when no role matches) is ranked with score
\* min(100, base + 20), and a role that is no candidate is ranked only if its
\* base score is at least 30, with that score; with interests [backend, api]
\* and programming_basics, databases and backend_frameworks completed (no
\* helpful skill of the role started) the primary role is Backend Developer
\* with score 90.
C13_BonusAndThreshold ==
    /\ BonusAndThreshold(Ranking, Candidates, [k \in RoleKeys |-> BaseScore(k)])
    /\ (args.user_interests = <<"backend", "api">> /\ args.user_goals = <<>>)
          => Candidates = <<"backend_developer">>
    /\ (args.user_interests = <<"Cooking">> /\ args.user_goals = <<>>)
          => Candidates = <<"backend_developer", "fullstack_developer">>
    /\ (args.user_interests = <<"ML">>) => Candidates = <<"ml_engineer">>
    /\ (/\ args.user_interests = <<"backend", "api">>
        /\ args.level["programming_basics"] = "completed"
        /\ args.level["databases"] = "completed"
        /\ args.level["backend_frameworks"] = "completed"
        /\ args.level["docker"] = "absent"
        /\ args.level["system_design"] = "absent")
          => /\ ret.primaryDirection.role = "Backend Developer"
             /\ ret.primaryDirection.matchScore = 90

C13_Witness ==
    /\ args.kind = "recommend"
    /\ args.user_interests = <<"backend", "api">>
    /\ args.user_goals = <<>>
    /\ AnalysisOf(args.level).skillsCompleted =
           <<"programming_basics", "databases", "backend_frameworks">>
    /\ AnalysisOf(args.level).skillsInProgress = <<>>
    /\ ret.primaryDirection.role = "Backend Developer"
    /\ ret.primaryDirection.matchScore = 90
    /\ Len(ret.alternativeDirections) = 1
    /\ ret.alternativeDirections[1].matchScore = 35

\* position of a role key in the catalog
CatalogIndex(k) == CHOOSE i \in 1..Len(CAREER_ROLES) : CAREER_ROLES[i].key = k

\* the part of C14 that does not depend on how ties are broken: the ranking
\* is by score descending, the primary direction is its first entry, the
\* alternatives its next up to three, the market insights the primary
\* role's catalog entry
RankingShapesResult(ranking) ==
    /\ \A i, j \in 1..Len(ranking) : i < j => ranking[i].score >= ranking[j].score
    /\ ret.primaryDirection.role = Role(ranking[1].role_key).title
    /\ ret.primaryDirection.matchScore = ranking[1].score
    /\ Len(ret.alternativeDirections) = Min(3, Len(ranking) - 1)
    /\ \A i \in 1..Len(ret.alternativeDirections) :
          /\ ret.alternativeDirections[i].role = Role(ranking[i + 1].role_key).title
          /\ ret.alternativeDirections[i].matchScore = ranking[i + 1].score
    /\ ret.marketInsights = Role(ranking[1].role_key).market

TiesInCatalogOrder(ranking) ==
    \A i, j \in 1..Len(ranking) :
        (i < j /\ ranking[i].score = ranking[j].score) =>
            CatalogIndex(ranking[i].role_key) < CatalogIndex(ranking[j].role_key)

\* 0 for a candidate, 1 for any other role
Group(candidates, k) == IF Member(k, candidates) THEN 0 ELSE 1

TiesCandidatesFirst(ranking, candidates) ==
    \A i, j \in 1..Len(ranking) :
        (i < j /\ ranking[i].score = ranking[j].score) =>
            \/ Group(candidates, ranking[i].role_key) < Group(candidates, ranking[j].role_key)
            \/ /\ Group(candidates, ranking[i].role_key) = Group(candidates, ranking[j].role_key)
               /\ CatalogIndex(ranking[i].role_key) < CatalogIndex(ranking[j].role_key)

\* C14 as stated: the ranked roles are ordered by final score descending and,
\* among roles of equal final score, by their position in the catalog; the
\* primary direction is the first ranked role, the alternatives the next up
\* to 3 in that order, the market insights the primary role's catalog entry.
C14_TiesInCatalogOrder ==
    RankingShapesResult(Ranking) /\ TiesInCatalogOrder(Ranking)

\* C14 amended: as above, but among roles of equal final score a candidate
\* role (matched by keyword, or one of the default pair) is ranked before a
\* role that is no candidate, and catalog order decides within each group.
C14_TiesCandidatesFirst ==
    RankingShapesResult(Ranking) /\ TiesCandidatesFirst(Ranking, Candidates)

\* a tie between the default candidate backend_developer and the roles
\* ml_engineer and data_scientist, which come before it in the catalog
C14_Witness ==
    /\ args.kind = "recommend"
    /\ Candidates = <<"backend_developer", "fullstack_developer">>
    /\ Len(Ranking) >= 3
    /\ SubSeq(Ranking, 1, 3) =
           <<[role_key |-> "backend_developer", score |-> 35],
             [role_key |-> "ml_engineer", score |-> 35],
             [role_key |-> "data_scientist", score |-> 35]>>
    /\ Len(ret.alternativeDirections) = 3

\* ---------------------------------------------------------------- text-generation strategy

\* the values json.loads produces, and the text it cannot parse
JInvalid == [json |-> "invalid"]
JStr(s) == [json |-> "string", str |-> s]
JInt(n) == [json |-> "number", int |-> n]
JArr(items) == [json |-> "array", items |-> items]
JObj(fields) == [json |-> "object", fields |-> fields]

\* what model.generate_content does: it raises, or it returns a text
LlmRaises == [kind |-> "raises"]
LlmText(parsed) == [kind |-> "text", parsed |-> parsed]

\* dict.get(key, default)
Get(data, key, default) ==
    IF key \in DOMAIN data.fields THEN data.fields[key] ELSE default

\* list[str] from a JSON array of strings
StrItems(arr) == [i \in 1..Len(arr.items) |-> arr.items[i].str]

\* Python truthiness of a parsed JSON value
JTruthy(val) ==
    CASE val.json = "string" -> val.str # ""
      [] val.json = "number" -> val.int # 0
      [] val.json = "array" -> val.items # <<>>
      [] val.json = "object" -> DOMAIN val.fields # {}
      [] OTHER -> FALSE

\* parse_level: anything that is not the name of a level is BEGINNER
parse_level(val) ==
    IF val.json = "string" /\ val.str # "" /\ Lower(val.str) \in Level
    THEN Lower(val.str) ELSE "beginner"

\* pydantic's check of ProfilePreferences(**preferences)
ValidPreferences(val) ==
    /\ val.json = "object"
    /\ {"learningStyle", "timeAvailable", "goals"} \subseteq DOMAIN val.fields
    /\ val.fields["goals"].json = "array"

\* the statements of _analyze_with_llm that raise
AnalyzeLlmRaises(response) ==
    \/ response.kind = "raises"
    \/ response.parsed.json # "object"
    \/ /\ "progressToNextLevel" \in DOMAIN response.parsed.fields
       /\ response.parsed.fields["progressToNextLevel"].json # "number"
    \/ /\ "preferences" \in DOMAIN response.parsed.fields
       /\ ~ValidPreferences(response.parsed.fields["preferences"])

NextLevelOf(data) ==
    IF "nextLevel" \in DOMAIN data.fields /\ JTruthy(data.fields["nextLevel"])
    THEN parse_level(data.fields["nextLevel"]) ELSE "None"

GoalsOf(data, user) ==
    IF "preferences" \in DOMAIN data.fields
    THEN StrItems(data.fields["preferences"].fields["goals"])
    ELSE user.goals

\* ProfileAgent._analyze_with_llm, for a reply it does not raise on
analyze_with_llm(user, data, r) ==
    [kind |-> "ProfileAnalysis", by |-> r,
     user_id |-> user.user_id,
     level |-> parse_level(Get(data, "level", JStr("beginner"))),
     nextLevel |-> NextLevelOf(data),
     progressToNextLevel |-> Get(data, "progressToNextLevel", JInt(0)).int,
     goals |-> GoalsOf(data, user)]

\* ProfileAgent.analyze
analyze(user, use_llm, response, r) ==
    IF use_llm /\ ~AnalyzeLlmRaises(response)
    THEN analyze_with_llm(user, response.parsed, r)
    ELSE ProfileAgent_analyze(user, r)

\* pydantic's check of CareerMatch(role=.., matchScore=.., reason=..)
ValidMatch(val, keys) ==
    /\ val.json = "object"
    /\ keys \subseteq DOMAIN val.fields
    /\ val.fields["role"].json = "string"
    /\ val.fields["score"].json = "number"
    /\ val.fields["reason"].json = "string"

ValidMarket(val) ==
    /\ val.json = "object"
    /\ {"demandTrend", "salaryRange", "topCompanies"} \subseteq DOMAIN val.fields
    /\ val.fields["topCompanies"].json = "array"

ValidAlternatives(val) ==
    /\ val.json = "array"
    /\ \A i \in 1..Len(val.items) : ValidMatch(val.items[i], {"role", "score", "reason"})

\* the statements of _recommend_with_llm that raise
RecommendLlmRaises(response) ==
    \/ response.kind = "raises"
    \/ response.parsed.json # "object"
    \/ ~({"primary", "market"} \subseteq DOMAIN response.parsed.fields)
    \/ ~ValidMatch(response.parsed.fields["primary"],
                   {"role", "score", "reason", "timeToReady"})
    \/ ~ValidMarket(response.parsed.fields["market"])
    \/ ~ValidAlternatives(Get(response.parsed, "alternatives", JArr(<<>>)))

LlmMatch(val, timeToReady) ==
    CareerMatch(val.fields["role"].str, val.fields["score"].int,
                <<val.fields["reason"].str>>, timeToReady)

LlmAlternatives(arr) ==
    [i \in 1..Len(arr.items) |-> LlmMatch(arr.items[i], "N/A")]

LlmMarket(val) ==
    [demandTrend |-> val.fields["demandTrend"].str,
     salaryRange |-> val.fields["salaryRange"].str,
     topCompanies |-> StrItems(val.fields["topCompanies"])]

\* CareerRecommendationAgent._recommend_with_llm, for a reply it does not
\* raise on
recommend_with_llm(data) ==
    [kind |-> "CareerAnalysis",
     primaryDirection |->
         LlmMatch(data.fields["primary"], data.fields["primary"].fields["timeToReady"].str),
     alternativeDirections |-> LlmAlternatives(Get(data, "alternatives", JArr(<<>>))),
     marketInsights |-> LlmMarket(data.fields["market"])]

\* the body of CareerRecommendationAgent.recommend
recommend(model, response, profile, skill_analysis, user_interests, user_goals) ==
    IF model /\ ~RecommendLlmRaises(response)
    THEN recommend_with_llm(response.parsed)
    ELSE recommend_fallback(profile, skill_analysis, user_interests, user_goals)

\* ---------------------------------------------------------------- the replies of the model

\* the JSON objects over keys, each key present or not, with a value of vals[key]
Objects(keys, vals) ==
    UNION { { JObj(f) : f \in { g \in [D -> UNION { vals[k] : k \in keys }] :
                                   \A k \in D : g[k] \in vals[k] } } :
            D \in SUBSET keys }

ProfileReplyValues ==
    [level |-> { JStr("advanced"), JStr("Intermediate"), JStr("expert"), JStr("") },
     nextLevel |-> { JStr("advanced"), JStr("guru") },
     progressToNextLevel |-> { JInt(50), JStr("halfway") },
     preferences |->
        { JObj([learningStyle |-> JArr(<<JStr("videos")>>),
                timeAvailable |-> JStr("5 hours a week"),
                goals |-> JArr(<<JStr("Ship a product")>>)]),
          JObj([goals |-> JArr(<<JStr("Ship a product")>>)]) }]

ProfileReplies ==
    { LlmRaises, LlmText(JInvalid), LlmText(JArr(<<>>)) }
        \cup { LlmText(d) : d \in Objects(DOMAIN ProfileReplyValues, ProfileReplyValues) }

\* a reply of the shape the prompt of _analyze_with_llm asks for
ConformsToProfileShape(response) ==
    /\ response.kind = "text"
    /\ response.parsed.json = "object"
    /\ {"level", "progressToNextLevel", "preferences"} \subseteq DOMAIN response.parsed.fields
    /\ response.parsed.fields["level"].json = "string"
    /\ response.parsed.fields["level"].str \in Level
    /\ "nextLevel" \in DOMAIN response.parsed.fields =>
          /\ response.parsed.fields["nextLevel"].json = "string"
          /\ response.parsed.fields["nextLevel"].str \in Level
    /\ response.parsed.fields["progressToNextLevel"].json = "number"
    /\ response.parsed.fields["progressToNextLevel"].int \in 0..100
    /\ ValidPreferences(response.parsed.fields["preferences"])

\* the most alternatives a reply lists
MaxReplyAlternatives == 4

ReplyMatch(role, score) ==
    JObj([role |-> JStr(role), score |-> score, reason |-> JStr("Fits the profile"),
          timeToReady |-> JStr("6-9 months")])

ReplyAlternative(role, score) ==
    JObj([role |-> JStr(role), score |-> score, reason |-> JStr("Related")])

ReplyRoles == <<"Platform Engineer", "Data Engineer", "QA Engineer", "Game Developer",
                "Security Analyst", "Cloud Architect">>

ReplyAlternatives(n, score) ==
    JArr([i \in 1..n |-> ReplyAlternative(ReplyRoles[i], score)])

CareerReplyValues ==
    [primary |-> { ReplyMatch("Site Reliability Engineer", JInt(85)),
                   ReplyMatch("Site Reliability Engineer", JInt(150)),
                   ReplyMatch("Site Reliability Engineer", JStr("high")),
                   JObj([role |-> JStr("Site Reliability Engineer"), score |-> JInt(85)]) },
     market |-> { JObj([demandTrend |-> JStr("increasing"),
                        salaryRange |-> JStr("12-25 LPA"),
                        topCompanies |-> JArr(<<JStr("Google")>>)]),
                  JObj([demandTrend |-> JStr("increasing")]) },
     alternatives |-> { ReplyAlternatives(n, JInt(60)) : n \in 0..MaxReplyAlternatives }
                         \cup { ReplyAlternatives(1, JInt(0 - 5)),
                                ReplyAlternatives(1, JStr("fair")) }]

CareerReplies ==
    { LlmRaises, LlmText(JInvalid), LlmText(JArr(<<>>)) }
        \cup { LlmText(d) : d \in Objects(DOMAIN CareerReplyValues, CareerReplyValues) }

ScoreConforms(val) == val.json = "number" /\ val.int \in 0..100

\* a reply of the shape the prompt of _recommend_with_llm asks for: one
\* primary role and three alternatives at most, scores 0-100
ConformsToCareerShape(response) ==
    /\ response.kind = "text"
    /\ response.parsed.json = "object"
    /\ DOMAIN response.parsed.fields = {"primary", "market", "alternatives"}
    /\ ValidMatch(response.parsed.fields["primary"], {"role", "score", "reason", "timeToReady"})
    /\ ScoreConforms(response.parsed.fields["primary"].fields["score"])
    /\ ValidMarket(response.parsed.fields["market"])
    /\ ValidAlternatives(response.parsed.fields["alternatives"])
    /\ Len(response.parsed.fields["alternatives"].items) <= 3
    /\ \A i \in 1..Len(response.parsed.fields["alternatives"].items) :
          ScoreConforms(response.parsed.fields["alternatives"].items[i].fields["score"])

\* ---------------------------------------------------------------- the agents with a model

\* the profiles analyze is called with
LlmProfileInputs ==
    { UserProfileInput(1, st, ex, <<"backend">>, gls) :
          st \in {"first_year", "third_year"},
          ex \in {"coursework", "small_projects", "professional"},
          gls \in {<<>>, <<"Get opportunities">>} }

\* the snapshots recommend is called with
LlmSnapshotLevels ==
    { [s \in {SnapshotSkills[i] : i \in 1..Len(SnapshotSkills)} |->
          IF s \in done THEN "completed" ELSE "absent"] :
      done \in { {}, {"python", "statistics", "docker"} } }

AnalyzeOf(a) == analyze(a.user, a.use_llm, a.response, 0)

RecommendWith(a) ==
    recommend(a.model, a.response, a.profile, AnalysisOf(a.level),
              a.user_interests, a.user_goals)

\* a call is under way: analyze or recommend, the agent built with or
\* without a model
LlmInit ==
    /\ PipelineInit
    /\ \/ \E user \in LlmProfileInputs, use_llm \in BOOLEAN :
             args = [kind |-> "analyze", user |-> user, use_llm |-> use_llm,
                     response |-> None]
       \/ \E case \in RecommendInputs, level \in LlmSnapshotLevels, model \in BOOLEAN :
             args = [kind |-> "recommend", user_interests |-> case[1],
                     user_goals |-> case[2], profile |-> ProfileInput(case[3]),
                     level |-> level, model |-> model, response |-> None]
    /\ ret = None

AnalyzeRuleBased ==
    /\ args.kind = "analyze" /\ ~args.use_llm /\ ret = None
    /\ ret' = AnalyzeOf(args)
    /\ UNCHANGED <<args, pipeline>>

AnalyzeWithLlm(response) ==
    /\ args.kind = "analyze" /\ args.use_llm /\ ret = None
    /\ args' = [args EXCEPT !.response = response]
    /\ ret' = AnalyzeOf(args')
    /\ UNCHANGED pipeline

RecommendRuleBased ==
    /\ args.kind = "recommend" /\ ~args.model /\ ret = None
    /\ ret' = RecommendWith(args)
    /\ UNCHANGED <<args, pipeline>>

RecommendWithLlm(response) ==
    /\ args.kind = "recommend" /\ args.model /\ ret = None
    /\ args' = [args EXCEPT !.response = response]
    /\ ret' = RecommendWith(args')
    /\ UNCHANGED pipeline

LlmNext ==
    \/ AnalyzeRuleBased
    \/ \E response \in ProfileReplies : AnalyzeWithLlm(response)
    \/ RecommendRuleBased
    \/ \E response \in CareerReplies : RecommendWithLlm(response)

LlmSpec == LlmInit /\ [][LlmNext]_vars

\* the value the rule-based algorithm returns for the inputs of the call
RuleBasedValue(a) ==
    IF a.kind = "analyze" THEN ProfileAgent_analyze(a.user, 0)
    ELSE recommend_fallback(a.profile, AnalysisOf(a.level), a.user_interests, a.user_goals)

Malformed(a) ==
    IF a.kind = "analyze" THEN ~ConformsToProfileShape(a.response)
    ELSE ~ConformsToCareerShape(a.response)

WithModel(a) == IF a.kind = "analyze" THEN a.use_llm ELSE a.model

\* C15: whenever the model raises or its reply does not have the shape asked
\* for, analyze and recommend return exactly what the rule-based algorithm
\* returns for the same inputs
C15_TotalFallback ==
    (Truthy(ret) /\ WithModel(args) /\ Malformed(args)) => ret = RuleBasedValue(args)

MatchesOf(analysis) == <<analysis.primaryDirection>> \o analysis.alternativeDirections

\* C16: a CareerAnalysis returned by recommend, by the rule-based or the
\* text-generation strategy, has every matchScore in 0..100 and at most three
\* alternative directions
C16_ScoresAndAlternativesBounded ==
    (args.kind = "recommend" /\ Truthy(ret)) =>
        /\ \A i \in 1..Len(MatchesOf(ret)) : MatchesOf(ret)[i].matchScore \in 0..100
        /\ Len(ret.alternativeDirections) <= 3

\* ---------------------------------------------------------------- skill graph

\* the skills of a prerequisite table, and the lists a table maps them to
GraphSkills == {"A", "B", "C"}

PrerequisiteLists ==
    {<<>>} \cup { <<a>> : a \in GraphSkills }
           \cup { <<a, b>> : a \in GraphSkills, b \in GraphSkills }

\* SKILL_DEPENDENCIES: some skills are keys, each with its list
DependencyTables ==
    UNION { [known -> PrerequisiteLists] : known \in SUBSET GraphSkills }

\* get_prerequisites: SKILL_DEPENDENCIES.get(skill, [])
get_prerequisites(table, skill) ==
    IF skill \in DOMAIN table THEN table[skill] ELSE <<>>

\* set(list)
SetOf(list) == { list[i] : i \in 1..Len(list) }

\* the frame of a call of get_all_prerequisites that found its skill not
\* visited: direct = set(get_prerequisites(skill)), all_prereqs = direct.copy(),
\* and the prerequisites the loop has still to go through
Frame(table, skill) ==
    [skill |-> skill,
     todo |-> SetOf(get_prerequisites(table, skill)),
     all_prereqs |-> SetOf(get_prerequisites(table, skill))]

Top(stack) == stack[Len(stack)]

Pop(stack) == SubSeq(stack, 1, Len(stack) - 1)

\* all_prereqs |= get_all_prerequisites(prereq, visited)
Merge_direct_only(all_prereqs, result) == all_prereqs

Merge(all_prereqs, result) == all_prereqs \cup result

\* the caller's frame after the call it made returned result
Resume(frame, result) ==
    [frame EXCEPT !.all_prereqs = Merge(frame.all_prereqs, result)]

\* get_all_prerequisites(skill) is called with no visited set
PrerequisitesInit ==
    /\ PipelineInit
    /\ \E table \in DependencyTables, skill \in GraphSkills :
          args = [kind |-> "get_all_prerequisites", table |-> table, skill |-> skill,
                  visited |-> {skill}, stack |-> <<Frame(table, skill)>>]
    /\ ret = None

\* the loop calls get_all_prerequisites(prereq, visited) and prereq is in
\* visited: the call returns set()
CallVisited(prereq) ==
    /\ ret = None
    /\ prereq \in Top(args.stack).todo
    /\ prereq \in args.visited
    /\ args' = [args EXCEPT
                  !.stack[Len(args.stack)].todo = @ \ {prereq},
                  !.stack[Len(args.stack)].all_prereqs = Merge(@, {})]
    /\ UNCHANGED <<ret, pipeline>>

\* the loop calls get_all_prerequisites(prereq, visited) and prereq is new:
\* visited.add(prereq), and the call starts its own loop
CallNew(prereq) ==
    /\ ret = None
    /\ prereq \in Top(args.stack).todo
    /\ prereq \notin args.visited
    /\ args' = [args EXCEPT
                  !.visited = @ \cup {prereq},
                  !.stack = Append([@ EXCEPT ![Len(@)].todo = @ \ {prereq}],
                                   Frame(args.table, prereq))]
    /\ UNCHANGED <<ret, pipeline>>

\* the loop of a recursive call is over: return all_prereqs to the caller
Return ==
    /\ ret = None
    /\ Len(args.stack) > 1
    /\ Top(args.stack).todo = {}
    /\ args' = [args EXCEPT
                  !.stack = [Pop(@) EXCEPT
                               ![Len(@) - 1] = Resume(@, Top(args.stack).all_prereqs)]]
    /\ UNCHANGED <<ret, pipeline>>

\* the loop of the first call is over
ReturnToCaller ==
    /\ ret = None
    /\ Len(args.stack) = 1
    /\ Top(args.stack).todo = {}
    /\ ret' = [kind |-> "set", value |-> Top(args.stack).all_prereqs]
    /\ args' = [args EXCEPT !.stack = <<>>]
    /\ UNCHANGED pipeline

PrerequisitesNext ==
    \/ \E prereq \in GraphSkills : CallVisited(prereq)
    \/ \E prereq \in GraphSkills : CallNew(prereq)
    \/ Return
    \/ ReturnToCaller

\* a call that can take a step takes it
PrerequisitesSpec ==
    PrerequisitesInit /\ [][PrerequisitesNext]_vars /\ WF_vars(PrerequisitesNext)

\* one round of following the direct links from a set of skills
Follow(table, skills) ==
    skills \cup UNION { SetOf(get_prerequisites(table, s)) : s \in skills }

RECURSIVE LeastFixedPoint(_, _)
LeastFixedPoint(table, skills) ==
    IF Follow(table, skills) = skills THEN skills
    ELSE LeastFixedPoint(table, Follow(table, skills))

\* C17: for every table and skill get_all_prerequisites returns, and what it
\* returns is the least set that holds the skill's direct prerequisites and
\* the direct prerequisites of its members; it is empty for a skill with no
\* prerequisites or none in the table
C17_TerminatesWithLeastFixedPoint ==
    /\ <>Truthy(ret)
    /\ [](Truthy(ret) =>
            /\ ret.value = LeastFixedPoint(args.table,
                                           SetOf(get_prerequisites(args.table, args.skill)))
            /\ (args.skill \notin DOMAIN args.table \/ args.table[args.skill] = <<>>)
                  => ret.value = {})

\* A -> B -> A: both are prerequisites of A
C17_Witness ==
    /\ Truthy(ret)
    /\ args.skill = "A"
    /\ args.table = [s \in {"A", "B"} |-> IF s = "A" THEN <<"B">> ELSE <<"A">>]
    /\ ret.value = {"A", "B"}

\* ---------------------------------------------------------------- skill gaps

SKILL_DEPENDENCIES ==
    [ algorithms |-> <<"data_structures", "programming_basics">>,
      data_structures |-> <<"programming_basics">>,
      system_design |-> <<"algorithms", "databases", "networking">>,
      frontend_frameworks |-> <<"html_css", "javascript">>,
      backend_frameworks |-> <<"programming_basics", "databases">>,
      javascript |-> <<"html_css", "programming_basics">>,
      typescript |-> <<"javascript">>,
      react |-> <<"javascript", "html_css">>,
      nodejs |-> <<"javascript">>,
      machine_learning |-> <<"python", "statistics", "linear_algebra">>,
      deep_learning |-> <<"machine_learning", "python">>,
      data_analysis |-> <<"python", "statistics">>,
      statistics |-> <<"math_basics">>,
      databases |-> <<"programming_basics">>,
      sql |-> <<"databases">>,
      nosql |-> <<"databases">>,
      devops |-> <<"linux", "git", "networking">>,
      docker |-> <<"linux", "git">>,
      kubernetes |-> <<"docker", "networking">>,
      cloud_services |-> <<"networking", "linux">>,
      programming_basics |-> <<>>,
      python |-> <<"programming_basics">>,
      java |-> <<"programming_basics">>,
      html_css |-> <<>>,
      git |-> <<>>,
      linux |-> <<>>,
      networking |-> <<>>,
      math_basics |-> <<>>,
      linear_algebra |-> <<"math_basics">> ]

\* the keys of SKILL_DEPENDENCIES, in the order of the dict
SkillNames ==
    <<"algorithms", "data_structures", "system_design", "frontend_frameworks",
      "backend_frameworks", "javascript", "typescript", "react",
      "nodejs", "machine_learning", "deep_learning", "data_analysis",
      "statistics", "databases", "sql", "nosql",
      "devops", "docker", "kubernetes", "cloud_services",
      "programming_basics", "python", "java", "html_css",
      "git", "linux", "networking", "math_basics",
      "linear_algebra">>

\* get_all_prerequisites(skill) of the module's own table, as the first call
\* returns it
get_all_prerequisites(skill) ==
    LeastFixedPoint(SKILL_DEPENDENCIES, SetOf(get_prerequisites(SKILL_DEPENDENCIES, skill)))

ALL_PREREQUISITES ==
    [skill \in DOMAIN SKILL_DEPENDENCIES |-> get_all_prerequisites(skill)]

AllPrerequisites(skill) ==
    IF skill \in DOMAIN ALL_PREREQUISITES THEN ALL_PREREQUISITES[skill] ELSE {}

\* _direction_to_skills: the mappings in the order of the dict, the first key
\* the lowered direction contains wins
DirectionMappings ==
    << [key |-> "backend", skills |-> <<"backend_frameworks", "databases", "system_design">>],
       [key |-> "frontend", skills |-> <<"frontend_frameworks", "react", "typescript">>],
       [key |-> "fullstack",
        skills |-> <<"frontend_frameworks", "backend_frameworks", "databases">>],
       [key |-> "data", skills |-> <<"data_analysis", "machine_learning", "sql">>],
       [key |-> "ml", skills |-> <<"machine_learning", "deep_learning", "python">>],
       [key |-> "machine learning",
        skills |-> <<"machine_learning", "deep_learning", "python", "statistics">>],
       [key |-> "devops", skills |-> <<"devops", "docker", "kubernetes", "cloud_services">>],
       [key |-> "software", skills |-> <<"algorithms", "system_design", "databases">>] >>

FirstMapping(hits) == IF hits = <<>> THEN <<>> ELSE hits[1].skills

direction_to_skills(direction) ==
    IF ~Truthy(direction) THEN <<>>
    ELSE FirstMapping(SelectSeq(DirectionMappings,
                                LAMBDA m : IsSubstr(m.key, Lower(direction.value))))

\* the order a set of skill names is iterated in: the names of the set in the
\* order of a list of all names
ListIn(order, skills) == SelectSeq(order, LAMBDA s : s \in skills)

Reverse(seq) == [i \in 1..Len(seq) |-> seq[Len(seq) + 1 - i]]

\* two iteration orders of the sets of a run
SetOrders == { SkillNames, Reverse(SkillNames) }

Comfortable(level) == { s \in DOMAIN level : level[s] = "comfortable" }

Learning(level) == { s \in DOMAIN level : level[s] \in {"aware", "used_a_bit"} }

\* line 51
TargetSkills(level, direction, order) ==
    IF direction_to_skills(direction) # <<>> THEN direction_to_skills(direction)
    ELSE ListIn(order, Learning(level))

\* lines 54-56: the prerequisites met by the two loops, in the order met,
\* less the comfortable ones
RECURSIVE MissingPrerequisites(_, _, _)
MissingPrerequisites(targets, comfortable, order) ==
    IF targets = <<>> THEN <<>>
    ELSE ListIn(order, AllPrerequisites(Head(targets)) \ comfortable)
            \o MissingPrerequisites(Tail(targets), comfortable, order)

\* line 63: a prerequisite is appended the first time it is met
RECURSIVE FirstOccurrences(_)
FirstOccurrences(seq) ==
    IF seq = <<>> THEN <<>>
    ELSE <<Head(seq)>> \o FirstOccurrences(SelectSeq(Tail(seq), LAMBDA x : x # Head(seq)))

\* line 59
Blocked(prereq, target_skills) ==
    SelectSeq(target_skills, LAMBDA s : prereq \in AllPrerequisites(s))

\* lines 60, 64-69
SkillGapOf_high_from_3(prereq, blocked) ==
    [skill |-> prereq,
     impact |-> IF Len(blocked) >= 3 THEN "high" ELSE "medium",
     blockedSkills |-> SubSeq(blocked, 1, Min(3, Len(blocked)))]

SkillGapOf(prereq, blocked) ==
    [skill |-> prereq,
     impact |-> IF Len(blocked) >= 2 THEN "high" ELSE "medium",
     blockedSkills |-> SubSeq(blocked, 1, Min(3, Len(blocked)))]

GapsOf(prereqs, target_skills) ==
    [i \in 1..Len(prereqs) |-> SkillGapOf(prereqs[i], Blocked(prereqs[i], target_skills))]

ImpactKey(gap) ==
    IF gap.impact = "high" THEN 0 ELSE IF gap.impact = "medium" THEN 1 ELSE 2

\* line 72: list.sort by the key, equal keys kept in order
SortByImpact_unsorted(gaps) == gaps

SortByImpact(gaps) ==
    SelectSeq(gaps, LAMBDA g : ImpactKey(g) = 0)
        \o SelectSeq(gaps, LAMBDA g : ImpactKey(g) = 1)
        \o SelectSeq(gaps, LAMBDA g : ImpactKey(g) = 2)

\* line 74: gaps[:5]
Top5(gaps) == SubSeq(gaps, 1, Min(5, Len(gaps)))

AllGaps(target_skills, comfortable, order) ==
    GapsOf(FirstOccurrences(MissingPrerequisites(target_skills, comfortable, order)),
           target_skills)

find_skill_gaps(level, direction, order) ==
    Top5(SortByImpact(AllGaps(TargetSkills(level, direction, order),
                              Comfortable(level), order)))

\* ---------------------------------------------------------------- skill gaps on their own

SkillLevels == {"absent", "aware", "used_a_bit", "comfortable"}

\* the skills a snapshot may list
GapSnapshotSkills ==
    {"python", "statistics", "machine_learning", "system_design", "kubernetes"}

\* the target directions: none, one for each of three mappings, one without
GapDirections ==
    { None, Str("Backend Developer"), Str("Machine Learning Engineer"),
      Str("machine learning"), Str("DevOps Engineer"), Str("Chef") }

GapsOfCall(a) == find_skill_gaps(a.level, a.direction, a.order)

GapsInit ==
    /\ PipelineInit
    /\ \E direction \in GapDirections, order \in SetOrders :
          args = [kind |-> "find_skill_gaps", direction |-> direction, order |-> order,
                  level |-> [s \in GapSnapshotSkills |-> "absent"]]
    /\ ret = GapsOfCall(args)

\* find_skill_gaps is called again after the snapshot moved one skill up
FindGaps(s, to) ==
    /\ \/ args.level[s] = "absent" /\ to = "aware"
       \/ args.level[s] = "aware" /\ to = "used_a_bit"
       \/ args.level[s] = "used_a_bit" /\ to = "comfortable"
    /\ args' = [args EXCEPT !.level[s] = to]
    /\ ret' = GapsOfCall(args')
    /\ UNCHANGED pipeline

GapsNext == \E s \in GapSnapshotSkills, to \in SkillLevels : FindGaps(s, to)

GapsSpec == GapsInit /\ [][GapsNext]_vars

\* the gaps of the call before they are sorted and cut
GapsFound ==
    AllGaps(TargetSkills(args.level, args.direction, args.order),
            Comfortable(args.level), args.order)

GapsBoundedDistinctSorted(gaps) ==
    /\ Len(gaps) <= 5
    /\ \A i, j \in 1..Len(gaps) : i # j => gaps[i].skill # gaps[j].skill
    /\ \A i, j \in 1..Len(gaps) :
          (i < j /\ gaps[j].impact = "high") => gaps[i].impact = "high"

\* C18: the list find_skill_gaps returns has five entries at most, no skill
\* twice, and no high-impact gap after a medium- or low-impact one
C18_GapsBoundedDistinctSorted ==
    args.kind = "find_skill_gaps" => GapsBoundedDistinctSorted(ret)

\* more than five gaps were found, a medium one ahead of a high one, and two
\* targets share a prerequisite
C18_Witness ==
    /\ args.kind = "find_skill_gaps"
    /\ Len(GapsFound) > 5
    /\ \E i, j \in 1..Len(GapsFound) :
          i < j /\ GapsFound[i].impact = "medium" /\ GapsFound[j].impact = "high"
    /\ Len(ret) = 5
    /\ ret[1].impact = "high"

\* ---------------------------------------------------------------- roadmaps

PhaseDef(title, skills) == [title |-> title, skills |-> skills]

\* the phase lists of _get_roadmap_phases
ML_PHASES ==
    << PhaseDef("Programming Foundations", <<"python", "programming_basics", "git">>),
       PhaseDef("Math for ML", <<"linear_algebra", "statistics">>),
       PhaseDef("ML Fundamentals", <<"machine_learning", "data_analysis">>),
       PhaseDef("Deep Learning", <<"deep_learning">>),
       PhaseDef("ML Engineering", <<"docker", "cloud_services">>),
       PhaseDef("Specialization", <<"mlops">>) >>

DATA_PHASES ==
    << PhaseDef("Programming Foundations", <<"python", "programming_basics">>),
       PhaseDef("Data Fundamentals", <<"sql", "data_analysis", "statistics">>),
       PhaseDef("Advanced Analytics", <<"machine_learning">>),
       PhaseDef("Visualization & Storytelling", <<"data_visualization">>) >>

BACKEND_PHASES ==
    << PhaseDef("Programming Foundations", <<"programming_basics", "git">>),
       PhaseDef("Backend Basics", <<"databases", "sql", "backend_frameworks">>),
       PhaseDef("Advanced Backend", <<"system_design", "docker">>),
       PhaseDef("Production Skills", <<"cloud_services", "devops">>) >>

PRODUCT_PHASES ==
    << PhaseDef("Product Fundamentals", <<"product_thinking", "user_research">>),
       PhaseDef("Technical Literacy", <<"programming_basics", "sql">>),
       PhaseDef("Analytics & Metrics", <<"analytics", "data_analysis">>),
       PhaseDef("Strategy & Execution", <<"roadmapping", "stakeholder_management">>) >>

MARKETING_PHASES ==
    << PhaseDef("Marketing Fundamentals", <<"marketing_fundamentals", "content_creation">>),
       PhaseDef("Analytics & Data", <<"analytics", "data_analysis">>),
       PhaseDef("Growth Tactics", <<"seo", "experimentation">>),
       PhaseDef("Technical Skills", <<"programming_basics", "sql">>) >>

UX_PHASES ==
    << PhaseDef("Design Fundamentals", <<"ux_design", "prototyping">>),
       PhaseDef("User Research", <<"user_research", "analytics">>),
       PhaseDef("Technical Skills", <<"html_css", "figma">>),
       PhaseDef("Advanced Design", <<"design_systems", "accessibility">>) >>

WRITER_PHASES ==
    << PhaseDef("Writing Fundamentals", <<"technical_writing", "content_creation">>),
       PhaseDef("Technical Literacy", <<"programming_basics", "git">>),
       PhaseDef("Documentation Tools", <<"documentation", "developer_experience">>),
       PhaseDef("Advanced Topics", <<"api_documentation", "style_guides">>) >>

FRONTEND_PHASES ==
    << PhaseDef("Web Fundamentals", <<"html_css", "javascript">>),
       PhaseDef("React & Frameworks", <<"react", "typescript">>),
       PhaseDef("Advanced Frontend", <<"frontend_frameworks", "performance">>),
       PhaseDef("Production Skills", <<"git", "testing">>) >>

DEVOPS_PHASES ==
    << PhaseDef("Linux & CLI", <<"linux", "git">>),
       PhaseDef("Containers", <<"docker", "kubernetes">>),
       PhaseDef("Cloud Infrastructure", <<"cloud_services", "networking">>),
       PhaseDef("CI/CD & Automation", <<"devops", "monitoring">>) >>

GENERIC_PHASES ==
    << PhaseDef("Programming Foundations", <<"programming_basics", "git">>),
       PhaseDef("Core Skills", <<"data_structures", "algorithms">>),
       PhaseDef("Specialization", <<"databases", "system_design">>),
       PhaseDef("Production Ready", <<"docker", "cloud_services">>) >>

RoadmapTemplates ==
    { ML_PHASES, DATA_PHASES, BACKEND_PHASES, PRODUCT_PHASES, MARKETING_PHASES,
      UX_PHASES, WRITER_PHASES, FRONTEND_PHASES, DEVOPS_PHASES, GENERIC_PHASES }

\* the if/elif chain over role.lower()
PhasesDefOf(lowered) ==
    IF IsSubstr("ml", lowered) \/ IsSubstr("machine learning", lowered) THEN ML_PHASES
    ELSE IF IsSubstr("data", lowered) THEN DATA_PHASES
    ELSE IF IsSubstr("backend", lowered) THEN BACKEND_PHASES
    ELSE IF IsSubstr("product", lowered) \/ IsSubstr("pm", lowered) THEN PRODUCT_PHASES
    ELSE IF IsSubstr("marketing", lowered) \/ IsSubstr("growth", lowered)
         THEN MARKETING_PHASES
    ELSE IF IsSubstr("ux", lowered) \/ IsSubstr("design", lowered) THEN UX_PHASES
    ELSE IF IsSubstr("writer", lowered) \/ IsSubstr("documentation", lowered)
         THEN WRITER_PHASES
    ELSE IF IsSubstr("frontend", lowered) THEN FRONTEND_PHASES
    ELSE IF IsSubstr("devops", lowered) THEN DEVOPS_PHASES
    ELSE GENERIC_PHASES

phases_def(role) == PhasesDefOf(Lower(role))

\* lines 419-425
SkillStatus(skill, completed, in_progress) ==
    IF skill \in completed THEN "completed"
    ELSE IF skill \in in_progress THEN "in-progress"
    ELSE "not-started"

RoadmapSkill(skill, completed, in_progress) ==
    [id |-> skill, status |-> SkillStatus(skill, completed, in_progress)]

\* completed_count: one for each skill of the phase found in completed
CompletedCount(skills, completed) ==
    Len(SelectSeq(skills, LAMBDA s : s \in completed))

\* lines 454-462; a phase has one to three skills, and for these
\* int((completed_count / len(skills)) * 100) is the floor of the quotient
AnyInProgress_ignored(skills, in_progress) == FALSE

AnyInProgress(skills, in_progress) == \E i \in 1..Len(skills) : skills[i] \in in_progress

PhaseStatus(skills, completed_count, in_progress) ==
    IF completed_count = Len(skills) THEN "completed"
    ELSE IF completed_count > 0 \/ AnyInProgress(skills, in_progress) THEN "in-progress"
    ELSE "not-started"

PhaseProgress(skills, completed_count, in_progress) ==
    IF completed_count = Len(skills) THEN 100
    ELSE IF completed_count > 0 \/ AnyInProgress(skills, in_progress)
         THEN (completed_count * 100) \div Len(skills)
    ELSE 0

RoadmapPhase(def, completed_count, completed, in_progress) ==
    [title |-> def.title,
     status |-> PhaseStatus(def.skills, completed_count, in_progress),
     progress |-> PhaseProgress(def.skills, completed_count, in_progress),
     skills |-> [i \in 1..Len(def.skills) |->
                    RoadmapSkill(def.skills[i], completed, in_progress)]]

PhasesOf(defs, completed, in_progress) ==
    [i \in 1..Len(defs) |->
        RoadmapPhase(defs[i], CompletedCount(defs[i].skills, completed),
                     completed, in_progress)]

\* _get_roadmap_phases
get_roadmap_phases(role, skill_analysis) ==
    PhasesOf(phases_def(role), SetOf(skill_analysis.skillsCompleted),
             SetOf(skill_analysis.skillsInProgress))

\* lines 298-304: the first in-progress phase, or the one after the last
\* completed phase before it
RECURSIVE CurrentPhase(_, _, _)
CurrentPhase(phases, i, current_phase) ==
    IF i > Len(phases) THEN current_phase
    ELSE IF phases[i].status = "in-progress" THEN i
    ELSE IF phases[i].status = "completed" THEN CurrentPhase(phases, i + 1, i + 1)
    ELSE CurrentPhase(phases, i + 1, current_phase)

RECURSIVE SumProgress(_, _)
SumProgress(phases, i) ==
    IF i > Len(phases) THEN 0 ELSE phases[i].progress + SumProgress(phases, i + 1)

\* lines 307-308
OverallProgress_of_first(phases) == IF Len(phases) > 0 THEN phases[1].progress ELSE 0

OverallProgress(phases) ==
    IF Len(phases) > 0 THEN SumProgress(phases, 1) \div Len(phases) ELSE 0

\* line 314: min(current_phase, len(phases))
CapPhase_uncapped(current_phase, n) == current_phase

CapPhase(current_phase, n) == Min(current_phase, n)

RoadmapOf(role, phases) ==
    [kind |-> "Roadmap", title |-> role,
     totalPhases |-> Len(phases),
     currentPhase |-> CapPhase(CurrentPhase(phases, 1, 1), Len(phases)),
     overallProgress |-> OverallProgress(phases),
     phases |-> phases]

build_roadmap_for_role(role, skill_analysis) ==
    RoadmapOf(role, get_roadmap_phases(role, skill_analysis))

\* ---------------------------------------------------------------- roadmaps on their own

\* the role names a roadmap is built for: the titles of the catalog and three
\* names a text-generation reply may give
RoadmapRoles ==
    { CAREER_ROLES[i].title : i \in 1..Len(CAREER_ROLES) }
        \cup { "Site Reliability Engineer", "HTML Developer", "Game Designer" }

\* the skills a snapshot may list
RoadmapSnapshotSkills ==
    <<"programming_basics", "git", "python", "deep_learning", "mlops">>

RoadmapAnalysisOf(level) ==
    [kind |-> "SkillAnalysis",
     skillsCompleted |->
         SelectSeq(RoadmapSnapshotSkills,
                   LAMBDA s : level[s] \in {"completed", "both_lists"}),
     skillsInProgress |->
         SelectSeq(RoadmapSnapshotSkills,
                   LAMBDA s : level[s] \in {"in_progress", "both_lists"})]

RoadmapOfCall(a) == build_roadmap_for_role(a.role, RoadmapAnalysisOf(a.level))

RoadmapInit ==
    /\ PipelineInit
    /\ \E role \in RoadmapRoles :
          args = [kind |-> "build_roadmap_for_role", role |-> role,
                  level |-> [s \in SetOf(RoadmapSnapshotSkills) |-> "absent"]]
    /\ ret = RoadmapOfCall(args)

\* the roadmap is built again after the snapshot moved one skill up
BuildRoadmap(s, to) ==
    /\ \/ args.level[s] = "absent" /\ to = "in_progress"
       \/ args.level[s] = "in_progress" /\ to \in {"completed", "both_lists"}
    /\ args' = [args EXCEPT !.level[s] = to]
    /\ ret' = RoadmapOfCall(args')
    /\ UNCHANGED pipeline

RoadmapNext == \E s \in DOMAIN args.level, to \in SkillStates : BuildRoadmap(s, to)

RoadmapSpec == RoadmapInit /\ [][RoadmapNext]_vars

\* the skills of a phase that are in the completed list, in the in-progress list
DoneIn(phase, level) ==
    { i \in 1..Len(phase.skills) :
         /\ phase.skills[i].id \in DOMAIN level
         /\ level[phase.skills[i].id] \in {"completed", "both_lists"} }

StartedIn(phase, level) ==
    { i \in 1..Len(phase.skills) :
         /\ phase.skills[i].id \in DOMAIN level
         /\ level[phase.skills[i].id] \in {"in_progress", "both_lists"} }

PhaseAsClaimed(phase, done, started) ==
    /\ phase.status = "completed" <=> done = Len(phase.skills)
    /\ phase.status = "in-progress" <=> (done # Len(phase.skills) /\ (done > 0 \/ started > 0))
    /\ phase.status \in {"completed", "in-progress", "not-started"}
    /\ phase.progress = CASE phase.status = "completed" -> 100
                          [] phase.status = "in-progress" -> (100 * done) \div Len(phase.skills)
                          [] OTHER -> 0

\* C19: a phase is completed exactly when all its skills are in the completed
\* list, in-progress exactly when it is not completed and one of its skills is
\* completed or in progress, and not-started otherwise; its progress is 100,
\* the floor of 100 * completed / skills, and 0
C19_PhaseStatusAndProgress ==
    args.kind = "build_roadmap_for_role" =>
        \A i \in 1..Len(ret.phases) :
            PhaseAsClaimed(ret.phases[i],
                           Cardinality(DoneIn(ret.phases[i], args.level)),
                           Cardinality(StartedIn(ret.phases[i], args.level)))

\* the ML roadmap (the role name holds "ml"): its first phase has one of three
\* skills completed and one in progress, its second is not started, its
\* fourth completed
C19_Witness ==
    /\ args.kind = "build_roadmap_for_role"
    /\ args.role = "HTML Developer"
    /\ ret.phases[1].status = "in-progress" /\ ret.phases[1].progress = 33
    /\ args.level["git"] = "in_progress"
    /\ ret.phases[4].status = "completed" /\ ret.phases[4].progress = 100
    /\ ret.phases[2].status = "not-started" /\ ret.phases[2].progress = 0

RECURSIVE Sum(_, _)
Sum(f, i) == IF i = 0 THEN 0 ELSE f[i] + Sum(f, i - 1)

MeanFloor(phases) ==
    Sum([i \in 1..Len(phases) |-> phases[i].progress], Len(phases)) \div Len(phases)

\* C20: overallProgress is the floor of the mean of the phases' progress and
\* lies in 0..100, totalPhases is the number of phases of the template the
\* role selects, and every phase of every template lists a skill
C20_OverallProgressAndPhases ==
    args.kind = "build_roadmap_for_role" =>
        /\ ret.overallProgress = MeanFloor(ret.phases)
        /\ ret.overallProgress \in 0..100
        /\ ret.totalPhases = Len(phases_def(args.role))
        /\ ret.totalPhases = Len(ret.phases)
        /\ \A template \in RoadmapTemplates :
              \A i \in 1..Len(template) : Len(template[i].skills) >= 1
        /\ \A i \in 1..Len(ret.phases) : Len(ret.phases[i].skills) >= 1

\* the six phases of the ML roadmap at 100, 0, 0, 100, 0, 0: the mean is 33
\* and a third
C20_Witness ==
    /\ args.kind = "build_roadmap_for_role"
    /\ args.role = "Machine Learning Engineer"
    /\ ret.totalPhases = 6
    /\ ret.phases[1].progress = 100
    /\ ret.phases[4].progress = 100
    /\ ret.overallProgress = 33

\* ---------------------------------------------------------------- interest titles

\* the keywords of the last test of _role_to_interest
BLOCKCHAIN_KEYWORDS_without_dapp == <<"blockchain", "smart contract", "web3", "crypto">>

BLOCKCHAIN_KEYWORDS == <<"blockchain", "smart contract", "dapp", "web3", "crypto">>

AnyKeyword(keywords, lowered) ==
    \E i \in 1..Len(keywords) : IsSubstr(keywords[i], lowered)

\* the chain of ifs over role.lower(), the first test that holds returns
InterestOf(lowered) ==
    IF IsSubstr("ml", lowered) \/ IsSubstr("machine learning", lowered)
    THEN "AI & Machine Learning"
    ELSE IF IsSubstr("data", lowered) THEN "Data Science"
    ELSE IF IsSubstr("backend", lowered) THEN "Backend Development"
    ELSE IF IsSubstr("frontend", lowered) THEN "Frontend Development"
    ELSE IF IsSubstr("full", lowered) THEN "Full Stack Development"
    ELSE IF IsSubstr("devops", lowered) THEN "Cloud & DevOps"
    ELSE IF AnyKeyword(BLOCKCHAIN_KEYWORDS, lowered) THEN "Blockchain & Web3"
    ELSE "Software Development"

role_to_interest(role) == InterestOf(Lower(role))

\* ---------------------------------------------------------------- interest titles on their own

\* the most words a role name is made of
MaxRoleWords == 2

\* the words of role names
RoleWords ==
    { "Blockchain", "Smart Contract", "DApp", "Web3", "Crypto", "Data", "Backend",
      "Frontend", "Full Stack", "DevOps", "HTML", "Engineer", "Developer" }

InterestInit ==
    /\ PipelineInit
    /\ \E word \in RoleWords : args = [kind |-> "_role_to_interest", words |-> <<word>>]
    /\ ret = role_to_interest(Join(args.words))

\* _role_to_interest is called with a role name one word longer
LongerRole(word) ==
    /\ Len(args.words) < MaxRoleWords
    /\ args' = [args EXCEPT !.words = Append(@, word)]
    /\ ret' = role_to_interest(Join(args'.words))
    /\ UNCHANGED pipeline

InterestNext == \E word \in RoleWords : LongerRole(word)

InterestSpec == InterestInit /\ [][InterestNext]_vars

\* the role name of the call holds one of the given keywords, in any case
Holds(keywords) ==
    \E i \in 1..Len(keywords) : IsSubstr(keywords[i], Lower(Join(args.words)))

BlockchainFamily == <<"blockchain", "smart contract", "dapp", "web3", "crypto">>

EarlierKeywords ==
    <<"ml", "machine learning", "data", "backend", "frontend", "full", "devops">>

ConfidenceOf_above_70(matchScore) ==
    IF matchScore > 70 THEN "high" ELSE IF matchScore >= 50 THEN "moderate" ELSE "low"

ConfidenceOf(matchScore) ==
    IF matchScore >= 70 THEN "high" ELSE IF matchScore >= 50 THEN "moderate" ELSE "low"

\* career.alternativeDirections[:2]
FirstTwo_all(alternatives) == alternatives

FirstTwo(alternatives) == SubSeq(alternatives, 1, Min(2, Len(alternatives)))

RolesOf(matches) == [i \in 1..Len(matches) |-> matches[i].role]

build_career_direction(career) ==
    [primaryRole |-> career.primaryDirection.role,
     secondaryRoles |-> RolesOf(FirstTwo(career.alternativeDirections)),
     matchScore |-> career.primaryDirection.matchScore,
     confidence |-> ConfidenceOf(career.primaryDirection.matchScore)]

\* str.replace(" ", "-")
RECURSIVE Hyphenate(_)
Hyphenate(s) ==
    IF Len(s) = 0 THEN ""
    ELSE (IF SubSeq(s, 1, 1) = " " THEN "-" ELSE SubSeq(s, 1, 1))
            \o Hyphenate(SubSeq(s, 2, Len(s)))

InterestId(role) == Hyphenate(Lower(role))

\* the skills of the phases that are not completed
ModulesOf(phase) ==
    Len(SelectSeq(phase.skills, LAMBDA skill : skill.status # "completed"))

RECURSIVE ModulesFrom(_, _)
ModulesFrom(phases, i) ==
    IF i > Len(phases) THEN 0 ELSE ModulesOf(phases[i]) + ModulesFrom(phases, i + 1)

\* lines 168-177, for the roadmap synthesize passes
PrimaryModules(modules, overallProgress) ==
    IF modules = 0 /\ overallProgress < 100 THEN 4 ELSE modules

PrimaryInterest(primary, roadmap) ==
    [id |-> InterestId(primary.role),
     title |-> role_to_interest(primary.role),
     progress |-> primary.matchScore,
     status |-> "Active",
     modulesRemaining |->
         PrimaryModules(ModulesFrom(roadmap.phases, 1), roadmap.overallProgress)]

AlternateInterest(alt) ==
    [id |-> InterestId(alt.role),
     title |-> role_to_interest(alt.role),
     progress |-> 0,
     status |-> "Planned",
     modulesRemaining |-> 4]

AlternateInterests(alternatives) ==
    [i \in 1..Len(alternatives) |-> AlternateInterest(alternatives[i])]

build_active_interests(career, roadmap) ==
    <<PrimaryInterest(career.primaryDirection, roadmap)>>
        \o AlternateInterests(FirstTwo(career.alternativeDirections))

LearningHours(hours) == IF hours = 0 THEN 2 ELSE hours

build_stats(skill_analysis, active_interests, roadmap) ==
    [skillsLearned |-> Len(skill_analysis.skillsCompleted),
     learningHours |-> LearningHours(Len(skill_analysis.skillsCompleted) * 15
                                        + Len(skill_analysis.skillsInProgress) * 5),
     roadmapCompletion |-> roadmap.overallProgress,
     domainsExplored |-> Len(active_interests)]

\* lines 558-563
AllDirections(career) ==
    <<career.primaryDirection>> \o FirstTwo(career.alternativeDirections)

RoadmapsFor(directions, skill_analysis) ==
    [i \in 1..Len(directions) |-> build_roadmap_for_role(directions[i].role, skill_analysis)]

SynthesisOf(career, skill_analysis, roadmaps, active_interests) ==
    [kind |-> "HorizonOutput",
     careerDirection |-> build_career_direction(career),
     activeInterests |-> active_interests,
     stats |-> build_stats(skill_analysis, active_interests, roadmaps[1]),
     roadmaps |-> roadmaps]

WithInterests(career, skill_analysis, roadmaps) ==
    SynthesisOf(career, skill_analysis, roadmaps,
                build_active_interests(career, roadmaps[1]))

\* ReasoningAgent.synthesize: the career direction, the roadmaps, the active
\* interests and the stats of the output
synthesize(career, skill_analysis) ==
    WithInterests(career, skill_analysis,
                  RoadmapsFor(AllDirections(career), skill_analysis))

\* ---------------------------------------------------------------- synthesize on its own

\* the primary roles and match scores of the analyses synthesize is called with
SynthPrimaryRoles == {"Backend Developer", "Blockchain Developer"}

SynthScores == {35, 49, 50, 69, 70, 100}

AlternativeRoles ==
    <<"Data Scientist", "Smart Contract Developer", "Frontend Developer", "DevOps Engineer",
      "Mobile Developer", "Product Manager">>

AlternativesOf(n) ==
    [i \in 1..n |-> CareerMatch(AlternativeRoles[i], 60 - i,
                                <<"Matches your interest in related areas">>, "None")]

\* the skills a snapshot may list
SynthSnapshotSkills == <<"programming_basics", "git">>

SynthAnalysisOf(level) ==
    [kind |-> "SkillAnalysis",
     skillsCompleted |->
         SelectSeq(SynthSnapshotSkills, LAMBDA s : level[s] \in {"completed", "both_lists"}),
     skillsInProgress |->
         SelectSeq(SynthSnapshotSkills,
                   LAMBDA s : level[s] \in {"in_progress", "both_lists"})]

SynthesisOfCall(a) == synthesize(a.career, SynthAnalysisOf(a.level))

SynthInit ==
    /\ PipelineInit
    /\ \E role \in SynthPrimaryRoles, score \in SynthScores, n \in 0..MaxReplyAlternatives :
          args = [kind |-> "synthesize",
                  career |-> [kind |-> "CareerAnalysis",
                              primaryDirection |->
                                  CareerMatch(role, score, <<"Fits the profile">>, "6-9 months"),
                              alternativeDirections |-> AlternativesOf(n),
                              marketInsights |-> None],
                  level |-> [s \in SetOf(SynthSnapshotSkills) |-> "absent"]]
    /\ ret = SynthesisOfCall(args)

\* synthesize is called again after the snapshot moved one skill up
SynthesizeAgain(s, to) ==
    /\ \/ args.level[s] = "absent" /\ to = "in_progress"
       \/ args.level[s] = "in_progress" /\ to \in {"completed", "both_lists"}
    /\ args' = [args EXCEPT !.level[s] = to]
    /\ ret' = SynthesisOfCall(args')
    /\ UNCHANGED pipeline

SynthNext == \E s \in DOMAIN args.level, to \in SkillStates : SynthesizeAgain(s, to)

SynthSpec == SynthInit /\ [][SynthNext]_vars

\* the candidate roles of a CareerAnalysis: the primary and the first two
\* alternatives
CandidateRoles(career) ==
    <<career.primaryDirection.role>>
        \o [i \in 1..Min(2, Len(career.alternativeDirections)) |->
               career.alternativeDirections[i].role]

OnePerCandidate(roles, out, score) ==
    /\ Len(out.roadmaps) = Len(roles)
    /\ Len(out.activeInterests) = Len(roles)
    /\ Len(roles) <= 3
    /\ \A i \in 1..Len(roles) :
          /\ out.roadmaps[i].title = roles[i]
          /\ out.activeInterests[i].id = InterestId(roles[i])
    /\ out.activeInterests[1].status = "Active"
    /\ out.activeInterests[1].progress = score
    /\ \A i \in 2..Len(roles) :
          /\ out.activeInterests[i].status = "Planned"
          /\ out.activeInterests[i].progress = 0
    /\ out.stats.domainsExplored = Len(out.activeInterests)

\* C21: synthesize builds one roadmap and one active interest for the primary
\* and for each of the first two alternatives, in that order; the primary's
\* interest is Active with the primary matchScore as progress, the others are
\* Planned with progress 0, and domainsExplored counts the interests
C21_OnePerCandidate ==
    args.kind = "synthesize" =>
        OnePerCandidate(CandidateRoles(args.career), ret,
                        args.career.primaryDirection.matchScore)

\* four alternatives, three roadmaps
C21_Witness ==
    /\ args.kind = "synthesize"
    /\ Len(args.career.alternativeDirections) = 4
    /\ Len(ret.roadmaps) = 3
    /\ ret.activeInterests[1].progress = 69
    /\ ret.activeInterests[3].status = "Planned"
    /\ args.level["git"] = "completed"

ConfidenceAsClaimed(direction, score, alternatives) ==
    /\ direction.confidence = "high" <=> score >= 70
    /\ direction.confidence = "moderate" <=> (score >= 50 /\ score < 70)
    /\ direction.confidence = "low" <=> score < 50
    /\ Len(direction.secondaryRoles) = Min(2, Len(alternatives))
    /\ \A i \in 1..Len(direction.secondaryRoles) :
          direction.secondaryRoles[i] = alternatives[i].role

\* C23: the confidence of the career direction is high exactly when the
\* primary matchScore is 70 or more, moderate exactly from 50 to 69, low
\* otherwise, and secondaryRoles are the roles of the first two alternatives
C23_ConfidenceAndSecondaryRoles ==
    args.kind = "synthesize" =>
        ConfidenceAsClaimed(ret.careerDirection, args.career.primaryDirection.matchScore,
                            args.career.alternativeDirections)

C23_Witness ==
    /\ args.kind = "synthesize"
    /\ args.career.primaryDirection.matchScore = 70
    /\ ret.careerDirection.confidence = "high"
    /\ ret.careerDirection.secondaryRoles = <<"Data Scientist", "Smart Contract Developer">>
    /\ Len(args.career.alternativeDirections) = 3
    /\ args.level["git"] = "in_progress"

\* the target skills of the call, and the targets whose prerequisite closure
\* holds a skill
Targets == TargetSkills(args.level, args.direction, args.order)

TargetsBlockedBy(skill, targets) ==
    { i \in 1..Len(targets) :
         skill \in AllPrerequisites(targets[i]) }

GapAsClaimed(gap, targets, level) ==
    \E blockers \in {TargetsBlockedBy(gap.skill, targets)} :
        /\ blockers # {}
        /\ ~(gap.skill \in DOMAIN level /\ level[gap.skill] = "comfortable")
        /\ gap.impact = "high" <=> Cardinality(blockers) >= 2
        /\ gap.impact \in {"high", "medium"}
        /\ Len(gap.blockedSkills) <= 3
        /\ \A j \in 1..Len(gap.blockedSkills) :
              \E i \in blockers : targets[i] = gap.blockedSkills[j]

MachineLearningScenario ==
    /\ args.direction = Str("machine learning")
    /\ args.level["python"] = "comfortable"
    /\ args.level["statistics"] = "used_a_bit"
    /\ \A s \in DOMAIN args.level \ {"python", "statistics"} : args.level[s] = "absent"

\* C24: every gap is in the prerequisite closure of a target skill and is not
\* comfortable in the snapshot, is high exactly when two or more targets have
\* it in their closure and medium otherwise, and names at most three blocked
\* skills, each such a target; with python comfortable, statistics used a bit
\* and direction machine learning the gaps hold linear_algebra or math_basics
C24_GapsAreUnmetPrerequisites ==
    args.kind = "find_skill_gaps" =>
        /\ \A targets \in {Targets} :
              \A i \in 1..Len(ret) : GapAsClaimed(ret[i], targets, args.level)
        /\ MachineLearningScenario =>
              \E i \in 1..Len(ret) : ret[i].skill \in {"linear_algebra", "math_basics"}

\* the scenario: five gaps, machine_learning the medium one, blocking
\* deep_learning alone
C24_Witness ==
    /\ args.kind = "find_skill_gaps"
    /\ MachineLearningScenario
    /\ Len(ret) = 5
    /\ ret[5] = [skill |-> "machine_learning", impact |-> "medium",
                 blockedSkills |-> <<"deep_learning">>]
    /\ \E i \in 1..4 : ret[i].skill = "linear_algebra" /\ ret[i].impact = "high"

\* C30: the list find_skill_gaps returns is the same, members and order,
\* whatever order the sets of the call are iterated in
C30_SameGapsInEveryOrder ==
    args.kind = "find_skill_gaps" =>
        \A order \in SetOrders : find_skill_gaps(args.level, args.direction, order) = ret

Statuses(phases) == [i \in 1..Len(phases) |-> phases[i].status]

IndicesOf(statuses, status) == { i \in 1..Len(statuses) : statuses[i] = status }

Least(S) == CHOOSE x \in S : \A y \in S : x <= y

Greatest(S) == CHOOSE x \in S : \A y \in S : x >= y

\* the phase the claim names for the statuses of a roadmap
ClaimedPhase(inProgress, completed, n) ==
    IF inProgress # {} THEN Least(inProgress)
    ELSE IF completed # {} THEN Min(Greatest(completed) + 1, n)
    ELSE 1

\* C25: currentPhase lies in 1..totalPhases and is the first in-progress
\* phase if there is one, else one past the last completed phase but no more
\* than the number of phases, and 1 when no phase is completed or in progress
C25_CurrentPhase ==
    args.kind = "build_roadmap_for_role" =>
        /\ ret.currentPhase \in 1..ret.totalPhases
        /\ ret.currentPhase =
              ClaimedPhase(IndicesOf(Statuses(ret.phases), "in-progress"),
                           IndicesOf(Statuses(ret.phases), "completed"),
                           Len(ret.phases))

\* the last of the six ML phases is completed and none is in progress: one
\* past it is seven, currentPhase is six
C25_Witness ==
    /\ args.kind = "build_roadmap_for_role"
    /\ args.role = "Machine Learning Engineer"
    /\ ret.phases[6].status = "completed"
    /\ ret.phases[4].status = "completed"
    /\ IndicesOf(Statuses(ret.phases), "in-progress") = {}
    /\ ret.currentPhase = 6

\* ---------------------------------------------------------------- categorize_skills on its own

\* the most entries of a snapshot
MaxEntries == 3

\* the entries a snapshot is made of: SkillSnapshot.skills is a list of
\* SkillEntry, a skill may have more than one entry
SnapshotEntries ==
    { SkillEntry(s, l) : s \in {"python", "sql", "git"},
                         l \in {"aware", "used_a_bit", "comfortable"} }

CategorizeInit ==
    /\ PipelineInit
    /\ args = [kind |-> "categorize_skills", snapshot |-> SkillSnapshot(<<>>)]
    /\ ret = categorize_skills(args.snapshot)

\* categorize_skills is called with a snapshot one entry longer
Categorize(entry) ==
    /\ Len(args.snapshot.skills) < MaxEntries
    /\ args' = [args EXCEPT !.snapshot = SkillSnapshot(Append(@.skills, entry))]
    /\ ret' = categorize_skills(args'.snapshot)
    /\ UNCHANGED pipeline

CategorizeNext == \E entry \in SnapshotEntries : Categorize(entry)

CategorizeSpec == CategorizeInit /\ [][CategorizeNext]_vars

\* the lists of the result a skill identifier is in
ListsHolding(skill, lists) ==
    { name \in {"completed", "in_progress", "planned"} :
         \E i \in 1..Len(lists[name]) : lists[name][i] = skill }

\* C26: every skill of the snapshot is in exactly one of the three lists,
\* the one of its level, and no skill identifier is in two lists
C26_ExactlyOneList ==
    args.kind = "categorize_skills" =>
        \A i \in 1..Len(args.snapshot.skills) :
            ListsHolding(args.snapshot.skills[i].skill, ret) =
                { CASE args.snapshot.skills[i].level = "comfortable" -> "completed"
                    [] args.snapshot.skills[i].level = "used_a_bit" -> "in_progress"
                    [] OTHER -> "planned" }

\* ---------------------------------------------------------------- the caches across runs

\* C27: a call that fails because its plan has no reasoning step leaves every
\* cache slot of every user as it was when the call was made: no step of a
\* call changes a slot before the call is planned, none does once the plan
\* has no reasoning step, and the call ends with the slots it started with.
C27_NoReasoningLeavesCaches ==
    /\ [][\A r \in Runs :
            (pc[r] # pc'[r] /\ pc[r] \in {"idle", "plan"}) => caches' = caches]_vars
    /\ [][\A r \in Runs :
            (pc[r] # pc'[r] /\ plan'[r] # None /\ ~plan'[r].run_reasoning) =>
                caches' = caches]_vars
    /\ [](\A r \in Runs :
            (Done(r) /\ Aborted(outcome[r], ValueError("reasoning"))) =>
                /\ ~plan[r].run_reasoning
                /\ endCache[r] = startCache[r])

C27_Witness ==
    \E r \in Runs :
        /\ Done(r)
        /\ ~plan[r].run_reasoning
        /\ Aborted(outcome[r], ValueError("reasoning"))
        /\ Truthy(startCache[r].profile)
        /\ Truthy(startCache[r].career)
        /\ endCache[r] = startCache[r]
        /\ Slots(user_id(r)) = startCache[r]

\* C28: at every step of every sequence of calls, a user with an entry in
\* the career cache has an entry in the profile cache, and no step removes
\* an entry from the profile, skill or career cache.
C28_CareerImpliesProfileNoRemoval ==
    /\ [](\A u \in Users : Truthy(career_cache[u]) => Truthy(profile_cache[u]))
    /\ [][\A u \in Users :
            /\ Truthy(profile_cache[u]) => Truthy(profile_cache'[u])
            /\ Truthy(skill_cache[u]) => Truthy(skill_cache'[u])
            /\ Truthy(career_cache[u]) => Truthy(career_cache'[u])]_vars

C28_Witness ==
    \E r \in Runs :
        /\ Done(r)
        /\ event[r].event_type = "direction_changed"
        /\ startCache[r] = NoSlots
        /\ outcome[r].kind = "RuntimeError"
        /\ Truthy(career_cache[user_id(r)])
        /\ Truthy(profile_cache[user_id(r)])
        /\ profile_cache[user_id(r)].by = r
        /\ career_cache[user_id(r)].by = r

\* the call has left its skill stage
PastSkillStage(r) ==
    \/ pc[r] \in {"career", "reasoning", "synthesize"}
    \/ pc[r] \in {"except", "done"}

\* C29: once a call whose plan has run_skill and which was given a snapshot
\* has left its skill stage, the stage has analysed the snapshot against the
\* primary role of the CareerAnalysis in the user's career slot when the
\* call was made, or against no direction if that slot was empty.
C29_SkillDirectionFromCacheAtStart ==
    \A r \in Runs :
        (PastSkillStage(r) /\ plan[r].run_skill /\ Truthy(skill_snapshot[r])) =>
            /\ Member("skill", calls[r])
            /\ skill_result[r].by = r
            /\ skill_cache[user_id(r)] = skill_result[r]
            /\ IF Truthy(startCache[r].career)
               THEN /\ HasPrimaryDirection(startCache[r].career)
                    /\ skill_result[r].target_direction =
                           Str(startCache[r].career.primaryDirection.role)
               ELSE skill_result[r].target_direction = None

====
